---------------------------- MODULE Spec2Model ----------------------------
(***************************************************************************)
(* Timing, segmentation and subtitle engine of the slide narrator:         *)
(*   - GestorPPTX._dividir_texto_segmentos_srt / GeradorVideo.             *)
(*     _dividir_texto_segmentos   (caption segmenters, pure functions)     *)
(*   - GeradorVideo.gerar_video / _gerar_clips_karaoke  (frame sequencer)  *)
(*   - GestorPPTX.gerar_srt       (subtitle writer)                        *)
(*                                                                         *)
(* Texts are sequences of one-character strings.  Durations are integers   *)
(* in ticks of 0.1 s; a quotient d / n of the code (float division) is     *)
(* kept exact as the pair <<numerator, denominator>>.                      *)
(***************************************************************************)
EXTENDS Integers, Sequences, FiniteSets, TLC

VARIABLES
    seg_pc,        \* segmenter harness: "input", "srt", "video" or "fmt"
    seg_texto,     \* the text handed to the segmenter
    seg_max,       \* max_chars (srt) / max_chars_segmento (video) in force
    seg_out,       \* the list of segments returned
    config,        \* GeradorVideo.config (ConfigVideo) + usar_audio_traduzido
    v_pc,          \* gerar_video: "idle", "loop", "emitido", "ok", "falhou"
    v_nclips,      \* gerar_video: len(clips), capped at 1 (empty / not empty)
    v_slide,       \* gerar_video: slide_info of the iteration (or SemSlide)
    v_res,         \* gerar_video: locals of the iteration after line 986
    v_frames,      \* gerar_video: the clips emitted by the iteration
    ficheiros_temp,   \* GeradorVideo: len(self._ficheiros_temp), capped at 1
    pasta_temp_base,  \* GeradorVideo: the temp folder of the session exists
    s_pc,          \* gerar_srt: "idle", "loop", "ok"
    s_params,      \* gerar_srt: its arguments
    s_i,           \* gerar_srt: number of slides consumed
    s_slide,       \* gerar_srt: the slide of the last iteration
    tempo_atual,   \* gerar_srt: running clock (ticks)
    contador,      \* gerar_srt: next entry index
    linhas_srt,    \* gerar_srt: the entries emitted so far
    wordTimings,       \* player: this.wordTimings, windows {start, end}
    currentWordCount,  \* player: this.currentWordCount
    p_duration,        \* player: duration given to the last calculateWordTimings
    p_pc,              \* player: "novo" after the constructor, "pronto" after init()
    presentationData,  \* player: this.presentationData (config and slides)
    currentSlide,      \* player: this.currentSlide
    isPlaying,         \* player: this.isPlaying
    karaokeInterval,   \* player: this.karaokeInterval, SemIntervalo for null
    audioElement,      \* player: this.audioElement, its src set and its paused flag
    temporizadores,            \* browser: the active intervals and the pending timeouts
    fn_pc,         \* function harness: "input" or the function applied
    fn_in,         \* the arguments of the function
    fn_out         \* what the function returned

segVars == <<seg_pc, seg_texto, seg_max, seg_out>>
videoVars ==
    <<config, v_pc, v_nclips, v_slide, v_res, v_frames, ficheiros_temp,
      pasta_temp_base>>
srtVars == <<s_pc, s_params, s_i, s_slide, tempo_atual, contador, linhas_srt>>
playerVars == <<wordTimings, currentWordCount, p_duration>>
timerVars ==
    <<p_pc, presentationData, currentSlide, isPlaying, karaokeInterval,
      audioElement, temporizadores>>
fnVars == <<fn_pc, fn_in, fn_out>>
vars == <<segVars, videoVars, srtVars, playerVars, timerVars, fnVars>>

----------------------------------------------------------------------------
(* Bounds of the model *)

MaxLen == 6          \* longest text (in symbols) given to the segmenters
MaxChars == 4        \* largest max_chars given to the srt segmenter
MaxLinhas == 2       \* largest config.legendas_linhas
LetrasPorPalavra == 25  \* letters per word of the long texts
MaxDur == 5          \* longest decoded audio, in ticks
MaxPalavras == 3     \* most words of a slide text
MaxExtra == 1        \* largest tempo_extra_slide, in ticks
MaxSlides == 3       \* most slides of a presentation given to gerar_srt
MaxPalavrasPlayer == 6  \* most words of a slide text shown by the player
LetrasPalavraSrt == 20   \* letters per word of the long narration of gerar_srt
MaxMs == 1100        \* longest time of the dense range given to _formatar_tempo_srt (ms)
MaxDurPlayer == 12   \* longest slide / audio duration in the player, in ticks

(* Program constants *)

CharsPorLinha == 40          \* chars_por_linha
MaxCharsSegmentoTeto == 120  \* min(max_chars_segmento, 120)
MinTempoFrame == 3           \* min_tempo_frame = 0.3 s, in ticks
TempoMinimoSlide == 30       \* tempo_minimo_slide = 3.0 s, in ticks
MaxCharsSegmentoSrt == 120   \* max_chars_segmento of gerar_srt
MaxCharsLinhaSrt == 60       \* max_chars_linha passed by gerar_srt
DuracaoPorOmissao == 50      \* slide.duration || 5, in ticks

Min(a, b) == IF a <= b THEN a ELSE b
Max(a, b) == IF a >= b THEN a ELSE b

----------------------------------------------------------------------------
(* Python string primitives used by the segmenters *)

NL == "\n"
Letras == {"a", "b"}
Pontuacao == {".", "!", "?"}
Brancos == {" ", NL}

\* str.strip(): drop leading and trailing whitespace
RECURSIVE LStrip(_)
LStrip(s) ==
    IF s = <<>> THEN s
    ELSE IF Head(s) \in Brancos THEN LStrip(Tail(s)) ELSE s

RECURSIVE RStrip(_)
RStrip(s) ==
    IF s = <<>> THEN s
    ELSE IF s[Len(s)] \in Brancos THEN RStrip(SubSeq(s, 1, Len(s) - 1)) ELSE s

Strip(s) == RStrip(LStrip(s))

\* str.replace('\n', ' ')
ReplaceNL(s) == [i \in 1..Len(s) |-> IF s[i] = NL THEN " " ELSE s[i]]

\* the indices of s that pass Test, in order
Indices(s, Test(_)) == SelectSeq([i \in 1..Len(s) |-> i], Test)

\* first index of the run of spaces that holds index i
InicioCorrida(s, i) ==
    CHOOSE j \in 1..i : /\ \A k \in j..i : s[k] = " "
                        /\ (j = 1 \/ s[j - 1] # " ")

\* str.replace('  ', ' '): one left-to-right pass over non-overlapping pairs,
\* so a run of k spaces keeps every second one (ceil(k/2) of them)
ReplaceEspacosDuplos(s) ==
    LET fica(i) == s[i] # " " \/ (i - InicioCorrida(s, i)) % 2 = 0
        idx == Indices(s, fica)
    IN [n \in 1..Len(idx) |-> s[idx[n]]]

\* texto.strip().replace('\n', ' ').replace('  ', ' ')
Normalizar(texto) == ReplaceEspacosDuplos(ReplaceNL(Strip(texto)))

\* str.split(): the maximal runs of non-whitespace characters
Split(s) ==
    LET comeca(i) == s[i] \notin Brancos /\ (i = 1 \/ s[i - 1] \in Brancos)
        acaba(i) == s[i] \notin Brancos /\ (i = Len(s) \/ s[i + 1] \in Brancos)
        inicios == Indices(s, comeca)
        fins == Indices(s, acaba)
    IN [n \in 1..Len(inicios) |-> SubSeq(s, inicios[n], fins[n])]

\* ' '.join(partes)
RECURSIVE Join(_)
Join(partes) ==
    IF partes = <<>> THEN <<>>
    ELSE IF Len(partes) = 1 THEN partes[1]
    ELSE partes[1] \o <<" ">> \o Join(Tail(partes))

\* re.split(r'(?<=[.!?])\s+', s): cut at every whitespace run that directly
\* follows a sentence mark; the run is dropped, the mark stays.
ReSplitFrases(s) ==
    LET corta(i) == s[i] \in Brancos /\ i > 1 /\ s[i - 1] \in Pontuacao
        retoma(i) == /\ s[i] \in Brancos
                     /\ (i = Len(s) \/ s[i + 1] \notin Brancos)
                     /\ \E j \in 2..i : /\ s[j - 1] \in Pontuacao
                                        /\ \A k \in j..i : s[k] \in Brancos
        cortes == Indices(s, corta)      \* first character of each separator
        fins == Indices(s, retoma)       \* last character of each separator
    IN [n \in 1..(Len(cortes) + 1) |->
            SubSeq(s, IF n = 1 THEN 1 ELSE fins[n - 1] + 1,
                      IF n = Len(cortes) + 1 THEN Len(s) ELSE cortes[n] - 1)]

\* s[:n] for n >= 0
Prefixo(s, n) == SubSeq(s, 1, Min(n, Len(s)))

----------------------------------------------------------------------------
(* GestorPPTX._dividir_texto_segmentos_srt (pptx_handler.py 969-1019) *)

\* the word loop of an over-long sentence, lines 1003-1011
RECURSIVE SrtLoopPalavras(_, _, _, _)
RECURSIVE SrtLoopPalavrasPerde(_, _, _, _)
RECURSIVE SrtLoopPalavrasLargo(_, _, _, _)

\* SrtLoopPalavras that forgets to store the full segment before starting
\* the next one
SrtLoopPalavrasPerde(palavras, segmentos, segmento_atual, max_chars) ==
    IF palavras = <<>>
    THEN [segmentos |-> segmentos, segmento_atual |-> segmento_atual]
    ELSE LET palavra == Head(palavras) IN
         IF Len(segmento_atual) + Len(palavra) + 1 <= max_chars
         THEN SrtLoopPalavrasPerde(Tail(palavras), segmentos,
                                   Strip(segmento_atual \o <<" ">> \o palavra),
                                   max_chars)
         ELSE SrtLoopPalavrasPerde(Tail(palavras), segmentos, palavra, max_chars)

\* SrtLoopPalavras that does not count the joining space
SrtLoopPalavrasLargo(palavras, segmentos, segmento_atual, max_chars) ==
    IF palavras = <<>>
    THEN [segmentos |-> segmentos, segmento_atual |-> segmento_atual]
    ELSE LET palavra == Head(palavras) IN
         IF Len(segmento_atual) + Len(palavra) <= max_chars
         THEN SrtLoopPalavrasLargo(Tail(palavras), segmentos,
                                   Strip(segmento_atual \o <<" ">> \o palavra),
                                   max_chars)
         ELSE SrtLoopPalavrasLargo(Tail(palavras),
                                   IF segmento_atual # <<>>
                                   THEN Append(segmentos, segmento_atual)
                                   ELSE segmentos,
                                   palavra, max_chars)

SrtLoopPalavras(palavras, segmentos, segmento_atual, max_chars) ==
    IF palavras = <<>>
    THEN [segmentos |-> segmentos, segmento_atual |-> segmento_atual]
    ELSE LET palavra == Head(palavras) IN
         IF Len(segmento_atual) + Len(palavra) + 1 <= max_chars
         THEN SrtLoopPalavras(Tail(palavras), segmentos,
                              Strip(segmento_atual \o <<" ">> \o palavra), max_chars)
         ELSE SrtLoopPalavras(Tail(palavras),
                              IF segmento_atual # <<>>
                              THEN Append(segmentos, segmento_atual) ELSE segmentos,
                              palavra, max_chars)

\* the sentence loop, lines 988-1013
RECURSIVE SrtLoopFrases(_, _, _, _)
SrtLoopFrases(frases, segmentos, segmento_atual, max_chars) ==
    IF frases = <<>>
    THEN [segmentos |-> segmentos, segmento_atual |-> segmento_atual]
    ELSE LET frase == Strip(Head(frases)) IN
         IF frase = <<>>
         THEN SrtLoopFrases(Tail(frases), segmentos, segmento_atual, max_chars)
         ELSE IF Len(segmento_atual) + Len(frase) + 1 <= max_chars
         THEN SrtLoopFrases(Tail(frases), segmentos,
                            Strip(segmento_atual \o <<" ">> \o frase), max_chars)
         ELSE LET guardados == IF segmento_atual # <<>>
                               THEN Append(segmentos, segmento_atual) ELSE segmentos
              IN IF Len(frase) > max_chars
                 THEN LET r == SrtLoopPalavras(Split(frase), guardados, <<>>, max_chars)
                      IN SrtLoopFrases(Tail(frases), r.segmentos, r.segmento_atual,
                                       max_chars)
                 ELSE SrtLoopFrases(Tail(frases), guardados, frase, max_chars)

DividirTextoSegmentosSrt(texto_in, max_chars) ==
    LET texto == Normalizar(texto_in) IN
    IF Len(texto) <= max_chars THEN <<texto>>
    ELSE LET r == SrtLoopFrases(ReSplitFrases(texto), <<>>, <<>>, max_chars)
             segmentos == IF r.segmento_atual # <<>>
                          THEN Append(r.segmentos, r.segmento_atual)
                          ELSE r.segmentos
         IN IF segmentos # <<>> THEN segmentos ELSE <<Prefixo(texto, max_chars)>>

----------------------------------------------------------------------------
(* GeradorVideo._dividir_texto_segmentos (video_generator.py 496-543) *)

\* lines 498-500
MaxCharsSegmento(legendas_linhas) ==
    Min(legendas_linhas * CharsPorLinha, MaxCharsSegmentoTeto)

\* the word loop, lines 525-531
RECURSIVE VideoLoopPalavras(_, _, _, _)
VideoLoopPalavras(palavras, segmentos, segmento_atual, max_chars_segmento) ==
    IF palavras = <<>>
    THEN [segmentos |-> segmentos, segmento_atual |-> segmento_atual]
    ELSE LET palavra == Head(palavras) IN
         IF Len(segmento_atual) + Len(palavra) + 1 > max_chars_segmento
         THEN VideoLoopPalavras(Tail(palavras),
                                IF segmento_atual # <<>>
                                THEN Append(segmentos, Strip(segmento_atual))
                                ELSE segmentos,
                                palavra, max_chars_segmento)
         ELSE VideoLoopPalavras(Tail(palavras), segmentos,
                                Strip(segmento_atual \o <<" ">> \o palavra),
                                max_chars_segmento)

\* VideoLoopFrases that closes the segment on an exact fit
RECURSIVE VideoLoopFrasesJusto(_, _, _, _)
VideoLoopFrasesJusto(frases, segmentos, segmento_atual, max_chars_segmento) ==
    IF frases = <<>>
    THEN [segmentos |-> segmentos, segmento_atual |-> segmento_atual]
    ELSE LET frase == Strip(Head(frases)) IN
         IF frase = <<>>
         THEN VideoLoopFrasesJusto(Tail(frases), segmentos, segmento_atual,
                                   max_chars_segmento)
         ELSE IF Len(segmento_atual) + Len(frase) + 1 >= max_chars_segmento
         THEN LET guardados == IF segmento_atual # <<>>
                               THEN Append(segmentos, Strip(segmento_atual))
                               ELSE segmentos
              IN IF Len(frase) > max_chars_segmento
                 THEN LET r == VideoLoopPalavras(Split(frase), guardados, <<>>,
                                                 max_chars_segmento)
                      IN VideoLoopFrasesJusto(Tail(frases), r.segmentos,
                                              r.segmento_atual, max_chars_segmento)
                 ELSE VideoLoopFrasesJusto(Tail(frases), guardados, frase,
                                           max_chars_segmento)
         ELSE VideoLoopFrasesJusto(Tail(frases), segmentos,
                                   Strip(segmento_atual \o <<" ">> \o frase),
                                   max_chars_segmento)

\* the sentence loop, lines 513-535
RECURSIVE VideoLoopFrases(_, _, _, _)
VideoLoopFrases(frases, segmentos, segmento_atual, max_chars_segmento) ==
    IF frases = <<>>
    THEN [segmentos |-> segmentos, segmento_atual |-> segmento_atual]
    ELSE LET frase == Strip(Head(frases)) IN
         IF frase = <<>>
         THEN VideoLoopFrases(Tail(frases), segmentos, segmento_atual,
                              max_chars_segmento)
         ELSE IF Len(segmento_atual) + Len(frase) + 1 > max_chars_segmento
         THEN LET guardados == IF segmento_atual # <<>>
                               THEN Append(segmentos, Strip(segmento_atual))
                               ELSE segmentos
              IN IF Len(frase) > max_chars_segmento
                 THEN LET r == VideoLoopPalavras(Split(frase), guardados, <<>>,
                                                 max_chars_segmento)
                      IN VideoLoopFrases(Tail(frases), r.segmentos,
                                         r.segmento_atual, max_chars_segmento)
                 ELSE VideoLoopFrases(Tail(frases), guardados, frase,
                                      max_chars_segmento)
         ELSE VideoLoopFrases(Tail(frases), segmentos,
                              Strip(segmento_atual \o <<" ">> \o frase),
                              max_chars_segmento)

DividirTextoSegmentos(texto_in, legendas_linhas) ==
    LET max_chars_segmento == MaxCharsSegmento(legendas_linhas)
        texto == Normalizar(texto_in)
    IN IF Len(texto) <= max_chars_segmento THEN <<texto>>
       ELSE LET r == VideoLoopFrases(ReSplitFrases(texto), <<>>, <<>>,
                                     max_chars_segmento)
                segmentos == IF r.segmento_atual # <<>>
                             THEN Append(r.segmentos, Strip(r.segmento_atual))
                             ELSE r.segmentos
            IN IF segmentos # <<>> THEN segmentos
               ELSE <<Prefixo(texto, max_chars_segmento)>>

----------------------------------------------------------------------------
(* Inputs of the segmenter harness *)

Alfabeto == {"a", ".", " ", NL}

RECURSIVE SeqsAte(_, _)
SeqsAte(S, n) ==
    IF n = 0 THEN {<<>>}
    ELSE LET menores == SeqsAte(S, n - 1)
         IN menores \cup {Append(s, c) : s \in {t \in menores : Len(t) = n - 1}, c \in S}

\* a text with every letter repeated LetrasPorPalavra times: the same
\* sentences and words, long enough to pass the video limits of 40/80/120
RECURSIVE Esticar(_)
Esticar(s) ==
    IF s = <<>> THEN <<>>
    ELSE IF Head(s) \in Letras
         THEN [i \in 1..LetrasPorPalavra |-> Head(s)] \o Esticar(Tail(s))
         ELSE <<Head(s)>> \o Esticar(Tail(s))

TextosCurtos == SeqsAte(Alfabeto, MaxLen)

\* three words, or three sentences when ponto is ".", of which the first two
\* fill one video line exactly (folga = 0) or pass it by one (folga = 1)
TextoNoLimite(ponto, folga) ==
    LET Unidade(n) == [i \in 1..(n - Len(ponto)) |-> "a"] \o ponto
        metade == CharsPorLinha \div 2
    IN Join(<<Unidade(metade), Unidade(CharsPorLinha - 1 - metade + folga),
              Unidade(2)>>)

TextosNoLimite == {TextoNoLimite(ponto, folga) : ponto \in {<<>>, <<".">>}, folga \in {0, 1}}

Textos == TextosCurtos \cup {Esticar(t) : t \in TextosCurtos} \cup TextosNoLimite

InitSegVars ==
    /\ seg_pc = "input"
    /\ seg_texto = <<>>
    /\ seg_max = 0
    /\ seg_out = <<>>

----------------------------------------------------------------------------
(* Slides, audio files and configuration *)

\* a quotient num / den of the code, kept exact
Frac(num, den) == <<num, den>>

\* An audio path of a slide: the file is absent, decodes to `duration`
\* ticks, or exists and makes AudioFileClip raise.
FicheiroAusente == [existe |-> FALSE, legivel |-> FALSE, duration |-> 0]
FicheiroCorrupto == [existe |-> TRUE, legivel |-> FALSE, duration |-> 0]
FicheiroOk(d) == [existe |-> TRUE, legivel |-> TRUE, duration |-> d]

DuracoesGuardadas == {0, 1}

\* <<file, stored duration>>: a readable file has its own length stored; the
\* stored length of a lost or damaged file is whatever was saved before
AudiosSlide ==
    {<<FicheiroOk(d), d>> : d \in 1..MaxDur}
    \cup {<<f, g>> : f \in {FicheiroAusente, FicheiroCorrupto}, g \in DuracoesGuardadas}

\* n words of one letter
RECURSIVE Frase(_, _)
Frase(letra, n) ==
    IF n = 0 THEN <<>>
    ELSE IF n = 1 THEN <<letra>>
    ELSE <<letra, " ">> \o Frase(letra, n - 1)

TextosNarrar ==
    {<<>>, <<" ">>} \cup {Frase("a", n) : n \in 1..MaxPalavras}
    \cup {Esticar(Frase("a", MaxPalavras))}
TextosTraduzidos == {<<>>, Frase("b", 2)}

SemSlide ==
    [info |-> FALSE, texto_narrar |-> <<>>, texto_traduzido |-> <<>>,
     caminho_audio |-> FicheiroAusente, duracao_audio |-> 0,
     caminho_audio_traduzido |-> FicheiroAusente, duracao_audio_traduzido |-> 0]

\* SlideInfo (pptx_handler.py 26-43)
Slides ==
    {[info |-> TRUE, texto_narrar |-> tn, texto_traduzido |-> tt,
      caminho_audio |-> ao[1], duracao_audio |-> ao[2],
      caminho_audio_traduzido |-> at[1], duracao_audio_traduzido |-> at[2]] :
        tn \in TextosNarrar, tt \in TextosTraduzidos,
        ao \in AudiosSlide, at \in AudiosSlide}

\* ConfigVideo (video_generator.py 36-60) and the usar_audio_traduzido
\* argument of gerar_video
Cfg(uat, le, ka, kt, lt, te, ll) ==
    [usar_audio_traduzido |-> uat, legendas_embutidas |-> le, karaoke_ativo |-> ka,
     karaoke_usar_traducao |-> kt, legendas_usar_traducao |-> lt,
     tempo_extra_slide |-> te, tempo_minimo_slide |-> TempoMinimoSlide,
     legendas_linhas |-> ll]

\* tempo_extra_slide is float(text of an entry field), app.py 2194: any sign
TemposExtra == (-2)..MaxExtra

\* The three rendering modes: plain, segmented captions, karaoke (the
\* application switches legendas_embutidas on with karaoke, app.py 2487).
\* A field the mode never reads keeps its ConfigVideo default.
Configs ==
    {Cfg(uat, FALSE, FALSE, FALSE, TRUE, te, 3) :
        uat \in BOOLEAN, te \in TemposExtra}
    \cup {Cfg(uat, TRUE, FALSE, FALSE, lt, te, ll) :
        uat \in BOOLEAN, te \in TemposExtra, lt \in BOOLEAN, ll \in 1..MaxLinhas}
    \cup {Cfg(uat, TRUE, TRUE, kt, TRUE, te, 3) :
        uat \in BOOLEAN, te \in TemposExtra, kt \in BOOLEAN}

ConfigInicial == Cfg(FALSE, FALSE, FALSE, FALSE, TRUE, 0, 3)

----------------------------------------------------------------------------
(* GeradorVideo.gerar_video, lines 915-986: durations of one slide *)

\* lines 925-939: AudioFileClip(...).duration, or the stored length when
\* decoding raises, or 0 when there is no file
DuracaoFicheiro(ficheiro, guardada) ==
    IF ficheiro.existe
    THEN IF ficheiro.legivel THEN ficheiro.duration ELSE guardada
    ELSE 0

\* lines 943-965: which audio is attached ("orig", "trad" or "none")
AudioPath(slide, usar_audio_traduzido) ==
    IF usar_audio_traduzido
    THEN IF slide.caminho_audio_traduzido.existe THEN "trad"
         ELSE IF slide.caminho_audio.existe THEN "orig"
         ELSE "none"
    ELSE IF slide.caminho_audio.existe THEN "orig" ELSE "none"

\* lines 947-965: what _reportar_progresso is told about the audio
RelatoAudio(slide, usar_audio_traduzido) ==
    IF usar_audio_traduzido
    THEN IF slide.caminho_audio_traduzido.existe THEN {"audio TRADUZIDO"}
         ELSE IF slide.caminho_audio.existe THEN {"fallback ORIGINAL"}
         ELSE {}
    ELSE IF slide.caminho_audio.existe THEN {"audio ORIGINAL"} ELSE {}

\* lines 983-986
DuracaoSlide(duracao_audio, cfg) ==
    IF duracao_audio > 0
    THEN duracao_audio + cfg.tempo_extra_slide
    ELSE cfg.tempo_minimo_slide

\* lines 915-986 for one slide
ResolverDuracoes(slide, cfg) ==
    IF ~slide.info
    THEN [duracao_orig |-> 0, duracao_trad |-> 0, audio_path |-> "none",
          duracao_audio_real |-> 0, duracao_audio |-> 0,
          duracao |-> DuracaoSlide(0, cfg),
          relatos |-> {"sem informacao de slide"}]
    ELSE LET duracao_orig == DuracaoFicheiro(slide.caminho_audio, slide.duracao_audio)
             duracao_trad == DuracaoFicheiro(slide.caminho_audio_traduzido,
                                             slide.duracao_audio_traduzido)
             audio_path == AudioPath(slide, cfg.usar_audio_traduzido)
             real0 == IF audio_path = "trad" THEN duracao_trad
                      ELSE IF audio_path = "orig" THEN duracao_orig
                      ELSE 0
             maior == Max(duracao_orig, duracao_trad)
             duracao_audio_real == IF real0 <= 0 THEN maior ELSE real0
             duracao_audio == IF maior <= 0
                              THEN Max(slide.duracao_audio,
                                       slide.duracao_audio_traduzido)
                              ELSE maior
         IN [duracao_orig |-> duracao_orig, duracao_trad |-> duracao_trad,
             audio_path |-> audio_path,
             duracao_audio_real |-> duracao_audio_real,
             duracao_audio |-> duracao_audio,
             duracao |-> DuracaoSlide(duracao_audio, cfg),
             relatos |-> RelatoAudio(slide, cfg.usar_audio_traduzido)]

SemRes ==
    [duracao_orig |-> 0, duracao_trad |-> 0, audio_path |-> "none",
     duracao_audio_real |-> 0, duracao_audio |-> 0, duracao |-> 0, relatos |-> {}]

\* the file behind audio_path
FicheiroDe(slide, audio_path) ==
    IF audio_path = "trad" THEN slide.caminho_audio_traduzido
    ELSE IF audio_path = "orig" THEN slide.caminho_audio
    ELSE FicheiroAusente

----------------------------------------------------------------------------
(* GeradorVideo._gerar_clips_karaoke (video_generator.py 621-687) *)

\* a clip: its duration (exact quotient), whether it carries the audio, and
\* what is drawn on it
Clip(duracao, audio, tipo, conteudo) ==
    [duracao |-> duracao, audio |-> audio, tipo |-> tipo, conteudo |-> conteudo]

\* line 631
DuracaoParaPalavras(duracao_slide, duracao_audio) ==
    IF duracao_audio > 0 THEN duracao_audio ELSE duracao_slide

\* lines 633-642: words per frame (1 when every word has its own frame);
\* int() truncates towards zero.  duracao_para_palavras # 0 here.
PalavrasPorFrame(num_palavras, duracao_para_palavras) ==
    IF duracao_para_palavras < MinTempoFrame * num_palavras
    THEN IF duracao_para_palavras < 0 THEN 1
         ELSE Max(1, (MinTempoFrame * num_palavras) \div duracao_para_palavras)
    ELSE 1

\* lines 639-642: the groups as <<first word, last word>>, 1-based
GruposPalavras(num_palavras, palavras_por_frame) ==
    LET num_frames == (num_palavras + palavras_por_frame - 1) \div palavras_por_frame
    IN [g \in 1..num_frames |->
            <<(g - 1) * palavras_por_frame + 1,
              Min(g * palavras_por_frame, num_palavras)>>]

\* line 646
TempoExtraFinal(duracao_slide, duracao_para_palavras) ==
    Max(0, duracao_slide - duracao_para_palavras)

\* DuracaoFrame with the padding of the last frame forgotten
DuracaoFrameSemExtra(idx, num_frames, duracao_para_palavras, tempo_extra_final) ==
    Frac(duracao_para_palavras, num_frames)

\* lines 668-671: duration of frame idx (1-based) of num_frames
DuracaoFrame(idx, num_frames, duracao_para_palavras, tempo_extra_final) ==
    IF idx = num_frames
    THEN Frac(duracao_para_palavras + tempo_extra_final * num_frames, num_frames)
    ELSE Frac(duracao_para_palavras, num_frames)

\* AudioFrameKaraoke with the audio set on every frame
AudioFrameKaraokeTodos(idx, ficheiro) == ficheiro.existe /\ ficheiro.legivel

\* lines 652-657 and 679: the first frame carries the audio when it loads
AudioFrameKaraoke(idx, ficheiro) == idx = 1 /\ ficheiro.existe /\ ficheiro.legivel

\* the whole function; [erro |-> TRUE] is the ZeroDivisionError of line 637
GerarClipsKaraoke(texto, duracao_slide, ficheiro, duracao_audio) ==
    LET palavras == Split(Strip(texto))
        num_palavras == Len(palavras)
        duracao_para_palavras == DuracaoParaPalavras(duracao_slide, duracao_audio)
    IN IF num_palavras = 0 THEN [erro |-> FALSE, clips |-> <<>>]
       ELSE IF duracao_para_palavras = 0 THEN [erro |-> TRUE, clips |-> <<>>]
       ELSE LET grupos == GruposPalavras(num_palavras,
                              PalavrasPorFrame(num_palavras, duracao_para_palavras))
                num_frames == Len(grupos)
                tempo_extra_final == TempoExtraFinal(duracao_slide, duracao_para_palavras)
            IN [erro |-> FALSE,
                clips |-> [idx \in 1..num_frames |->
                    Clip(DuracaoFrame(idx, num_frames, duracao_para_palavras,
                                      tempo_extra_final),
                         AudioFrameKaraoke(idx, ficheiro),
                         "karaoke", grupos[idx])]]

----------------------------------------------------------------------------
(* GeradorVideo.gerar_video, lines 988-1065: the clips of one slide *)

\* Python `x or y` on strings
Ou(x, y) == IF x # <<>> THEN x ELSE y

\* lines 993-996
TextoKaraoke(slide, cfg) ==
    IF cfg.karaoke_usar_traducao
    THEN Ou(slide.texto_traduzido, slide.texto_narrar)
    ELSE slide.texto_narrar

\* line 1014
TextoLegenda(slide, cfg) ==
    IF cfg.legendas_usar_traducao THEN slide.texto_traduzido ELSE slide.texto_narrar

\* lines 1033-1038: the first segment carries the audio
AudioFrameSegmento(seg_idx, audio_path) == seg_idx = 1 /\ audio_path # "none"

\* lines 1019-1042: one clip per segment; AudioFileClip(audio_path) on line
\* 1034 is not guarded and raises on a file that does not decode
ClipsSegmentos(segmentos, duracao, audio_path, ficheiro) ==
    IF audio_path # "none" /\ ~ficheiro.legivel
    THEN [erro |-> TRUE, clips |-> <<>>]
    ELSE [erro |-> FALSE,
          clips |-> [seg_idx \in 1..Len(segmentos) |->
              Clip(Frac(duracao, Len(segmentos)),
                   AudioFrameSegmento(seg_idx, audio_path),
                   "segmento", segmentos[seg_idx])]]

\* lines 1050-1065: a single clip for the slide
ClipSimples(duracao, ficheiro, legenda) ==
    [erro |-> FALSE,
     clips |-> <<Clip(Frac(duracao, 1), ficheiro.existe /\ ficheiro.legivel,
                      "simples", legenda)>>]

\* lines 988-1065
ClipsDoSlide(slide, cfg, res) ==
    LET ficheiro == FicheiroDe(slide, res.audio_path)
        simples(legenda) == ClipSimples(res.duracao, ficheiro, legenda)
    IN IF cfg.legendas_embutidas /\ slide.info
       THEN IF cfg.karaoke_ativo
            THEN LET texto_karaoke == TextoKaraoke(slide, cfg) IN
                 IF Strip(texto_karaoke) # <<>>
                 THEN LET k == GerarClipsKaraoke(texto_karaoke, res.duracao, ficheiro,
                                                 res.duracao_audio_real)
                      IN IF k.erro \/ k.clips # <<>> THEN k ELSE simples(<<>>)
                 ELSE simples(<<>>)
            ELSE LET texto_legenda == TextoLegenda(slide, cfg) IN
                 IF Strip(texto_legenda) # <<>>
                 THEN LET segmentos == DividirTextoSegmentos(texto_legenda,
                                                             cfg.legendas_linhas)
                      IN IF Len(segmentos) > 1
                         THEN ClipsSegmentos(segmentos, res.duracao, res.audio_path,
                                             ficheiro)
                         ELSE simples(texto_legenda)
                 ELSE simples(<<>>)
       ELSE simples(<<>>)

----------------------------------------------------------------------------
(* GeradorVideo.gerar_video as a state machine *)

InitVideoVars ==
    /\ config = ConfigInicial
    /\ v_pc = "idle"
    /\ v_nclips = 0
    /\ v_slide = SemSlide
    /\ v_res = SemRes
    /\ v_frames = <<>>
    /\ ficheiros_temp = 0
    /\ pasta_temp_base = FALSE

\* lines 873-908: the checks (MoviePy available, presentation loaded), the
\* temp folder of line 887 and the slide export before the loop
IniciarVideo ==
    /\ v_pc = "idle"
    /\ \E verificado \in BOOLEAN, exportou \in BOOLEAN :
          /\ v_pc' = IF verificado /\ exportou THEN "loop" ELSE "falhou"
          /\ pasta_temp_base' = verificado
    /\ UNCHANGED <<config, v_nclips, v_slide, v_res, v_frames, ficheiros_temp>>

\* one iteration of the loop of line 910, up to the clips of the slide; the
\* presentation may have any number of slides
ProcessarSlide ==
    /\ v_pc = "loop"
    /\ \E slide \in Slides \cup {SemSlide} :
          LET res == ResolverDuracoes(slide, config)
              r == ClipsDoSlide(slide, config, res)
          IN /\ v_slide' = slide
             /\ v_res' = res
             /\ v_frames' = r.clips
             /\ v_pc' = IF r.erro THEN "falhou" ELSE "emitido"
             /\ v_nclips' = IF r.erro THEN v_nclips ELSE 1
    /\ ficheiros_temp' = 1
    /\ UNCHANGED <<config, pasta_temp_base>>

\* back to the head of the loop: the locals of the iteration are gone
ProximoSlide ==
    /\ v_pc = "emitido"
    /\ v_pc' = "loop"
    /\ v_slide' = SemSlide
    /\ v_res' = SemRes
    /\ v_frames' = <<>>
    /\ UNCHANGED <<config, v_nclips, ficheiros_temp, pasta_temp_base>>

\* _limpar_todos_temp (109-124): the registry and the folder afterwards
LimparTodosTemp == [ficheiros_temp |-> 0, pasta_temp_base |-> FALSE]

\* lines 1067-1124: after the last image (imagens is not empty, line 898);
\* the export succeeds, and the temp files are cleaned (1102-1113), or raises
ConcluirVideo ==
    /\ v_pc = "loop"
    /\ v_nclips > 0
    /\ \E exportou \in BOOLEAN :
          /\ v_pc' = IF v_nclips > 0 /\ exportou THEN "ok" ELSE "falhou"
          /\ ficheiros_temp' = IF v_nclips > 0 /\ exportou
                               THEN LimparTodosTemp.ficheiros_temp
                               ELSE ficheiros_temp
          /\ pasta_temp_base' = IF v_nclips > 0 /\ exportou
                                THEN LimparTodosTemp.pasta_temp_base
                                ELSE pasta_temp_base
    /\ UNCHANGED <<config, v_nclips, v_slide, v_res, v_frames>>

----------------------------------------------------------------------------
(* GestorPPTX.gerar_srt (pptx_handler.py 864-967) *)

\* _obter_duracao_audio (1093-1141): 0.0 for a missing path or a file that
\* no decoder reads
ObterDuracaoAudio(ficheiro) ==
    IF ficheiro.existe /\ ficheiro.legivel THEN ficheiro.duration ELSE 0

\* lines 891-908: the text and the measured audio duration of the slide
TextoSrt(slide, usar_traducao) ==
    IF usar_traducao THEN Ou(slide.texto_traduzido, slide.texto_narrar)
    ELSE slide.texto_narrar

DuracaoAudioMedidaSrt(slide, usar_traducao) ==
    IF usar_traducao
    THEN Max(ObterDuracaoAudio(slide.caminho_audio_traduzido),
             ObterDuracaoAudio(slide.caminho_audio))
    ELSE ObterDuracaoAudio(slide.caminho_audio)

\* lines 910-915: fallback to the stored durations
DuracaoAudioSrt(slide, usar_traducao) ==
    LET medida == DuracaoAudioMedidaSrt(slide, usar_traducao) IN
    IF medida <= 0
    THEN IF usar_traducao
         THEN Max(slide.duracao_audio_traduzido, slide.duracao_audio)
         ELSE slide.duracao_audio
    ELSE medida

\* lines 917-921
DuracaoSlideSrt(slide, params) ==
    LET duracao_audio == DuracaoAudioSrt(slide, params.usar_traducao) IN
    IF duracao_audio > 0 THEN duracao_audio + params.tempo_extra
    ELSE params.tempo_minimo

\* '\n'.join(partes)
RECURSIVE JoinNL(_)
JoinNL(partes) ==
    IF partes = <<>> THEN <<>>
    ELSE IF Len(partes) = 1 THEN partes[1]
    ELSE partes[1] \o <<NL>> \o JoinNL(Tail(partes))

\* FormatarLoop that does not count the space between two words
RECURSIVE FormatarLoopSemEspaco(_, _, _, _, _)
FormatarLoopSemEspaco(palavras, linhas, linha_atual, tamanho_atual, max_chars_linha) ==
    IF palavras = <<>>
    THEN [linhas |-> linhas, linha_atual |-> linha_atual]
    ELSE LET palavra == Head(palavras) IN
         IF tamanho_atual + Len(palavra) <= max_chars_linha
         THEN FormatarLoopSemEspaco(Tail(palavras), linhas, Append(linha_atual, palavra),
                                    tamanho_atual + Len(palavra), max_chars_linha)
         ELSE LET guardadas == IF linha_atual # <<>>
                               THEN Append(linhas, Join(linha_atual))
                               ELSE linhas
              IN IF Len(guardadas) >= 2
                 THEN [linhas |-> guardadas, linha_atual |-> <<palavra>>]
                 ELSE FormatarLoopSemEspaco(Tail(palavras), guardadas, <<palavra>>,
                                            Len(palavra), max_chars_linha)

\* _formatar_texto_srt, lines 1037-1049: the loop over the words; it stops
\* (break) once two lines are stored
RECURSIVE FormatarLoop(_, _, _, _, _)
FormatarLoop(palavras, linhas, linha_atual, tamanho_atual, max_chars_linha) ==
    IF palavras = <<>>
    THEN [linhas |-> linhas, linha_atual |-> linha_atual]
    ELSE LET palavra == Head(palavras) IN
         IF tamanho_atual + Len(palavra) + 1 <= max_chars_linha
         THEN FormatarLoop(Tail(palavras), linhas, Append(linha_atual, palavra),
                           tamanho_atual + Len(palavra) + 1, max_chars_linha)
         ELSE LET guardadas == IF linha_atual # <<>>
                               THEN Append(linhas, Join(linha_atual))
                               ELSE linhas
              IN IF Len(guardadas) >= 2
                 THEN [linhas |-> guardadas, linha_atual |-> <<palavra>>]
                 ELSE FormatarLoop(Tail(palavras), guardadas, <<palavra>>,
                                   Len(palavra), max_chars_linha)

\* _formatar_texto_srt (pptx_handler.py 1021-1054)
FormatarTextoSrt(texto_in, max_chars_linha) ==
    LET texto == Normalizar(texto_in) IN
    IF Len(texto) <= max_chars_linha THEN texto
    ELSE LET r == FormatarLoop(Split(texto), <<>>, <<>>, 0, max_chars_linha)
             linhas == IF r.linha_atual # <<>> /\ Len(r.linhas) < 2
                       THEN Append(r.linhas, Join(r.linha_atual))
                       ELSE r.linhas
         IN JoinNL(SubSeq(linhas, 1, Min(2, Len(linhas))))

\* SegmentosSrt without the test of lines 923-926
SegmentosSrtSemTeste(slide, params) ==
    DividirTextoSegmentosSrt(TextoSrt(slide, params.usar_traducao),
                             params.max_chars_segmento)

\* lines 928-930: the segments of the slide (none for a slide without text,
\* lines 923-926)
SegmentosSrt(slide, params) ==
    LET texto == TextoSrt(slide, params.usar_traducao) IN
    IF texto = <<>> \/ Strip(texto) = <<>> THEN <<>>
    ELSE DividirTextoSegmentosSrt(texto, params.max_chars_segmento)

\* EntradasSrt with the segment index counted from 1 instead of 0
EntradasSrtDesalinhadas(segmentos, clock, duracao_slide, primeiro) ==
    LET num_segmentos == Len(segmentos) IN
    [k \in 1..num_segmentos |->
        [contador |-> primeiro + (k - 1),
         inicio |-> Frac(clock * num_segmentos + k * duracao_slide, num_segmentos),
         fim |-> Frac(clock * num_segmentos + (k + 1) * duracao_slide,
                      num_segmentos),
         texto_formatado |-> FormatarTextoSrt(segmentos[k], MaxCharsLinhaSrt)]]

\* lines 936-955: the entries of one slide; duracao_por_segmento is
\* duracao_slide / num_segmentos
EntradasSrt(segmentos, clock, duracao_slide, primeiro) ==
    LET num_segmentos == Len(segmentos) IN
    [k \in 1..num_segmentos |->
        [contador |-> primeiro + (k - 1),
         inicio |-> Frac(clock * num_segmentos + (k - 1) * duracao_slide,
                         num_segmentos),
         fim |-> Frac(clock * num_segmentos + k * duracao_slide, num_segmentos),
         texto_formatado |-> FormatarTextoSrt(segmentos[k], MaxCharsLinhaSrt)]]

\* the slides given to gerar_srt
AudiosOriginalSrt == {<<FicheiroAusente, 0>>, <<FicheiroAusente, 1>>, <<FicheiroOk(1), 1>>}
AudiosTraduzidoSrt == {<<FicheiroAusente, 0>>, <<FicheiroOk(2), 2>>}

\* the audio files of a slide: none, a lost original with its stored length
\* beside a readable translation, or a readable original alone
AudiosSrt ==
    {par \in AudiosOriginalSrt \X AudiosTraduzidoSrt :
        par[2][1].existe <=> (par[1] = <<FicheiroAusente, 1>>)}

\* a narration of five words of LetrasPalavraSrt letters
TextoLongoSrt == Join([n \in 1..5 |-> [i \in 1..LetrasPalavraSrt |-> "a"]])

\* <<texto_narrar, texto_traduzido>> of a slide
TextosSrt ==
    {<<<<>>, <<>>>>, <<Frase("a", MaxPalavras), <<>>>>,
     <<Frase("a", MaxPalavras), Frase("b", 2)>>, <<TextoLongoSrt, <<>>>>}

SlidesSrt ==
    {[info |-> TRUE, texto_narrar |-> t[1], texto_traduzido |-> t[2],
      caminho_audio |-> par[1][1], duracao_audio |-> par[1][2],
      caminho_audio_traduzido |-> par[2][1],
      duracao_audio_traduzido |-> par[2][2]] :
        t \in TextosSrt, par \in AudiosSrt}

\* the arguments of gerar_srt: tempo_extra is the same entry field as
\* tempo_extra_slide (app.py 2301)
ParamsSrt ==
    [usar_traducao : BOOLEAN, tempo_extra : TemposExtra,
     tempo_minimo : {TempoMinimoSlide},
     max_chars_segmento : {MaxChars, MaxCharsSegmentoSrt}]

\* lines 883-888: no presentation loaded returns False
IniciarSrt ==
    /\ s_pc = "idle"
    /\ \E apresentacao \in BOOLEAN :
          s_pc' = IF apresentacao THEN "loop" ELSE "falhou"
    /\ UNCHANGED <<s_params, s_i, s_slide, tempo_atual, contador, linhas_srt>>

\* one iteration of the loop of line 890
ProcessarSlideSrt ==
    /\ s_pc = "loop"
    /\ s_i < MaxSlides
    /\ \E slide \in SlidesSrt :
          LET duracao_slide == DuracaoSlideSrt(slide, s_params)
              segmentos == SegmentosSrt(slide, s_params)
          IN /\ s_slide' = slide
             /\ linhas_srt' = linhas_srt \o
                    EntradasSrt(segmentos, tempo_atual, duracao_slide, contador)
             /\ contador' = contador + Len(segmentos)
             /\ tempo_atual' = tempo_atual + duracao_slide
    /\ s_i' = s_i + 1
    /\ UNCHANGED <<s_pc, s_params>>

\* lines 959-967: the file is written, or the write raises
ConcluirSrt ==
    /\ s_pc = "loop"
    /\ \E escreveu \in BOOLEAN :
          s_pc' = IF escreveu THEN "ok" ELSE "falhou"
    /\ UNCHANGED <<s_params, s_i, s_slide, tempo_atual, contador, linhas_srt>>

----------------------------------------------------------------------------
(* The segmenters applied to one text *)

\* _dividir_texto_segmentos_srt(seg_texto, max_chars)
SegmentarSrt ==
    /\ seg_pc = "input"
    /\ \E max_chars \in 1..MaxChars :
          /\ seg_max' = max_chars
          /\ seg_out' = DividirTextoSegmentosSrt(seg_texto, max_chars)
    /\ seg_pc' = "srt"
    /\ UNCHANGED seg_texto

\* _dividir_texto_segmentos(seg_texto) under config.legendas_linhas
SegmentarVideo ==
    /\ seg_pc = "input"
    /\ \E legendas_linhas \in 1..MaxLinhas :
          /\ seg_max' = MaxCharsSegmento(legendas_linhas)
          /\ seg_out' = DividirTextoSegmentos(seg_texto, legendas_linhas)
    /\ seg_pc' = "video"
    /\ UNCHANGED seg_texto

----------------------------------------------------------------------------
(* PresentationPlayer of the exported HTML (html_exporter.py 905-1333):   *)
(* the word timing estimator                                               *)

\* calculateWordTimings with every window one tick short of the next
CalculateWordTimingsFolga(wordCount, duration) ==
    [i \in 1..wordCount |->
        [start |-> Frac((i - 1) * duration, wordCount),
         end |-> Frac(i * duration - 1, wordCount)]]

\* calculateWordTimings (1195-1208): timePerWord = duration / wordCount,
\* window i (0-based) = {i * timePerWord, (i + 1) * timePerWord}
CalculateWordTimings(wordCount, duration) ==
    [i \in 1..wordCount |->
        [start |-> Frac((i - 1) * duration, wordCount),
         end |-> Frac(i * duration, wordCount)]]

\* constructor (905-919)
InitPlayerVars ==
    /\ wordTimings = <<>>
    /\ currentWordCount = 0
    /\ p_duration = 0

\* loadKaraokeText (1160-1193) for a slide whose chosen text has
\* num_words words and whose stored duration is slide_duration
LoadKaraokeText ==
    \E enabled \in BOOLEAN, num_words \in 0..MaxPalavrasPlayer,
       slide_duration \in 0..MaxDurPlayer :
        IF enabled /\ num_words > 0
        THEN LET duration == IF slide_duration # 0 THEN slide_duration
                             ELSE DuracaoPorOmissao
             IN /\ currentWordCount' = num_words
                /\ wordTimings' = CalculateWordTimings(num_words, duration)
                /\ p_duration' = duration
        ELSE \* karaoke off or empty text: the windows are left as they are
             /\ currentWordCount' = 0
             /\ UNCHANGED <<wordTimings, p_duration>>

\* onAudioLoaded (1321-1333): the windows are recomputed over the decoded
\* audio duration
OnAudioLoaded ==
    \E realDuration \in 0..MaxDurPlayer :
        IF currentWordCount > 0 /\ realDuration > 0
        THEN /\ wordTimings' = CalculateWordTimings(currentWordCount, realDuration)
             /\ p_duration' = realDuration
             /\ UNCHANGED currentWordCount
        ELSE UNCHANGED playerVars

----------------------------------------------------------------------------
(* PresentationPlayer of the exported HTML: play, pause and the karaoke   *)
(* timer (html_exporter.py 920-940, 1128-1158, 1210-1266, 1335-1362)       *)

\* most slides of an exported presentation
MaxSlidesPlayer == 2
\* most intervals the page creates
MaxIntervalos == 3
\* most timeouts of one kind pending at a time
MaxPendentes == 2

\* this.karaokeInterval = null
SemIntervalo == 0

\* this.presentationData = null: no handler is registered before init()
\* has loaded the data
SemDados == [autoplay |-> FALSE, karaoke_enabled |-> FALSE, slides |-> <<>>]

\* presentation.json: config.audio.autoplay, config.karaoke.enabled and,
\* for every slide, whether it has an audio file
Apresentacoes ==
    [autoplay : BOOLEAN, karaoke_enabled : BOOLEAN,
     slides : UNION {[1..n -> BOOLEAN] : n \in 0..MaxSlidesPlayer}]

\* constructor (905-919)
InitTimerVars ==
    /\ p_pc = "novo"
    /\ presentationData = SemDados
    /\ currentSlide = 0
    /\ isPlaying = FALSE
    /\ karaokeInterval = SemIntervalo
    /\ audioElement = [src |-> FALSE, paused |-> TRUE]
    /\ temporizadores = [intervalos |-> {}, proximo_id |-> 1, play |-> 0, nextSlide |-> 0]

\* the player and the browser as one value, for the handlers that call
\* each other
Estado ==
    [presentationData |-> presentationData, currentSlide |-> currentSlide,
     isPlaying |-> isPlaying, karaokeInterval |-> karaokeInterval,
     audioElement |-> audioElement, temporizadores |-> temporizadores]

Aplicar(e) ==
    /\ presentationData' = e.presentationData
    /\ currentSlide' = e.currentSlide
    /\ isPlaying' = e.isPlaying
    /\ karaokeInterval' = e.karaokeInterval
    /\ audioElement' = e.audioElement
    /\ temporizadores' = e.temporizadores

\* startKaraoke (1253-1259): setInterval returns a new handle
StartKaraoke(e) ==
    IF ~e.presentationData.karaoke_enabled THEN e
    ELSE [e EXCEPT !.karaokeInterval = e.temporizadores.proximo_id,
                   !.temporizadores.intervalos = @ \cup {e.temporizadores.proximo_id},
                   !.temporizadores.proximo_id = @ + 1]

\* stopKaraoke (1261-1266)
StopKaraoke(e) ==
    IF e.karaokeInterval # SemIntervalo
    THEN [e EXCEPT !.temporizadores.intervalos = @ \ {e.karaokeInterval},
                   !.karaokeInterval = SemIntervalo]
    ELSE e

\* play (1233-1242); aceite: the promise of audioElement.play() resolves
Play(e, aceite) ==
    IF ~e.audioElement.src THEN e
    ELSE StartKaraoke([e EXCEPT !.audioElement.paused = IF aceite THEN FALSE ELSE @,
                                !.isPlaying = TRUE])

\* pause (1244-1251)
Pause(e) ==
    StopKaraoke([e EXCEPT !.audioElement.paused = TRUE, !.isPlaying = FALSE])

\* loadSlide (1128-1158): pause, loadAudio (1210-1223), delayed autoplay
LoadSlide(e, index) ==
    IF index < 0 \/ index >= Len(e.presentationData.slides) THEN e
    ELSE LET parado == Pause([e EXCEPT !.currentSlide = index])
             carregado == IF e.presentationData.slides[index + 1]
                          THEN [parado EXCEPT !.audioElement.src = TRUE]
                          ELSE parado
         IN IF e.presentationData.autoplay
            THEN [carregado EXCEPT !.temporizadores.play = @ + 1]
            ELSE carregado

\* init (920-940): the data is loaded, the handlers are registered and the
\* first slide is loaded
IniciarPlayer ==
    /\ p_pc = "novo"
    /\ \E dados \in Apresentacoes :
          Aplicar(LoadSlide([Estado EXCEPT !.presentationData = dados], 0))
    /\ p_pc' = "pronto"

\* loadSlide(index) from prevSlide, nextSlide, a digit key or setLanguage
CarregarSlide ==
    /\ p_pc = "pronto"
    /\ presentationData.autoplay => temporizadores.play < MaxPendentes
    /\ \E index \in {currentSlide - 1, currentSlide, currentSlide + 1} :
          /\ index >= 0
          /\ index < Len(presentationData.slides)
          /\ Aplicar(LoadSlide(Estado, index))
    /\ UNCHANGED p_pc

\* togglePlay (1225-1231) from the button, the space bar or a tap
TogglePlay ==
    /\ p_pc = "pronto"
    /\ temporizadores.proximo_id <= MaxIntervalos
    /\ \E aceite \in BOOLEAN :
          Aplicar(IF isPlaying THEN Pause(Estado) ELSE Play(Estado, aceite))
    /\ UNCHANGED p_pc

\* the callback of setTimeout(() => this.play(), 300) runs
TimeoutPlay ==
    /\ p_pc = "pronto"
    /\ temporizadores.play > 0
    /\ temporizadores.proximo_id <= MaxIntervalos
    /\ \E aceite \in BOOLEAN :
          Aplicar(Play([Estado EXCEPT !.temporizadores.play = @ - 1], aceite))
    /\ UNCHANGED p_pc

\* onAudioEnded (1335-1344): the audio that was playing reaches its end
OnAudioEnded ==
    /\ p_pc = "pronto"
    /\ ~audioElement.paused
    /\ presentationData.autoplay => temporizadores.nextSlide < MaxPendentes
    /\ LET parado == StopKaraoke([Estado EXCEPT !.audioElement.paused = TRUE,
                                                !.isPlaying = FALSE])
       IN Aplicar(IF presentationData.autoplay
                  THEN [parado EXCEPT !.temporizadores.nextSlide = @ + 1]
                  ELSE parado)
    /\ UNCHANGED p_pc

\* the callback of setTimeout(() => this.nextSlide(), 500) runs:
\* nextSlide (1358-1362)
TimeoutNextSlide ==
    /\ p_pc = "pronto"
    /\ temporizadores.nextSlide > 0
    /\ presentationData.autoplay => temporizadores.play < MaxPendentes
    /\ LET e == [Estado EXCEPT !.temporizadores.nextSlide = @ - 1]
       IN Aplicar(IF currentSlide < Len(presentationData.slides) - 1
                  THEN LoadSlide(e, currentSlide + 1) ELSE e)
    /\ UNCHANGED p_pc

\* _formatar_texto_srt(seg_texto, max_chars_linha); seg_out holds the
\* string returned
FormatarSrt ==
    /\ seg_pc = "input"
    /\ \E max_chars_linha \in 1..MaxChars :
          /\ seg_max' = max_chars_linha
          /\ seg_out' = <<FormatarTextoSrt(seg_texto, max_chars_linha)>>
    /\ seg_pc' = "fmt"
    /\ UNCHANGED seg_texto

----------------------------------------------------------------------------
(* GeradorVideo._adicionar_legenda_imagem and _quebrar_texto_largura        *)
(* (video_generator.py 473-494, 545-620): the lines drawn on a caption.     *)
(* Widths are counted in glyphs of one unit.                                *)

\* draw.textbbox: the width of a line of text
LarguraLinha(linha) == Len(linha)

\* the loop of lines 479-489
RECURSIVE QuebrarLoop(_, _, _, _)
QuebrarLoop(palavras, linhas, linha_atual, largura_max) ==
    IF palavras = <<>>
    THEN [linhas |-> linhas, linha_atual |-> linha_atual]
    ELSE LET palavra == Head(palavras)
             linha_teste == Join(Append(linha_atual, palavra))
         IN IF LarguraLinha(linha_teste) <= largura_max
            THEN QuebrarLoop(Tail(palavras), linhas, Append(linha_atual, palavra),
                             largura_max)
            ELSE QuebrarLoop(Tail(palavras),
                             IF linha_atual # <<>>
                             THEN Append(linhas, Join(linha_atual))
                             ELSE linhas,
                             <<palavra>>, largura_max)

\* _quebrar_texto_largura
QuebrarTextoLargura(texto, largura_max) ==
    LET r == QuebrarLoop(Split(texto), <<>>, <<>>, largura_max)
        linhas == IF r.linha_atual # <<>>
                  THEN Append(r.linhas, Join(r.linha_atual))
                  ELSE r.linhas
    IN IF linhas # <<>> THEN linhas ELSE <<Prefixo(texto, 50)>>

Reticencias == <<".", ".", ".">>

\* str.endswith('...')
TerminaEmReticencias(linha) ==
    Len(linha) >= 3 /\ SubSeq(linha, Len(linha) - 2, Len(linha)) = Reticencias

\* MarcarReticencias that leaves a line of three glyphs or less as it is
MarcarReticenciasLongas(linha) ==
    IF linha # <<>> /\ ~TerminaEmReticencias(linha)
    THEN IF Len(linha) > 3
         THEN SubSeq(linha, 1, Len(linha) - 3) \o Reticencias
         ELSE linha
    ELSE linha

\* lines 595-596: the last visible line after the cut
MarcarReticencias(linha) ==
    IF linha # <<>> /\ ~TerminaEmReticencias(linha)
    THEN IF Len(linha) > 3
         THEN SubSeq(linha, 1, Len(linha) - 3) \o Reticencias
         ELSE Reticencias
    ELSE linha

\* lines 586-596: the lines of the caption (max_linhas >= 1)
LinhasDaLegenda(texto_in, max_linhas, largura_max) ==
    LET texto == Normalizar(texto_in)
        linhas == QuebrarTextoLargura(texto, largura_max)
    IN IF Len(linhas) > max_linhas
       THEN [i \in 1..max_linhas |->
                IF i = max_linhas THEN MarcarReticencias(linhas[i]) ELSE linhas[i]]
       ELSE linhas

\* _adicionar_legenda_imagem(img, texto) under config.legendas_linhas on an
\* image that leaves room for largura_max glyphs
AdicionarLegendaImagem ==
    /\ fn_pc = "input"
    /\ \E texto \in TextosCurtos, max_linhas \in 1..MaxLinhas,
          largura_max \in 1..MaxChars :
          /\ fn_in' = [texto |-> texto, max_linhas |-> max_linhas,
                       largura_max |-> largura_max]
          /\ fn_out' = LinhasDaLegenda(texto, max_linhas, largura_max)
    /\ fn_pc' = "legenda"

----------------------------------------------------------------------------
(* GeradorVideo._organizar_palavras_linhas and _criar_frame_karaoke         *)
(* (video_generator.py 689-854).  A glyph is one unit wide, as in           *)
(* LarguraLinha.                                                            *)

\* most words of a narration laid out on a karaoke frame
MaxPalavrasFrame == 4

\* draw.textbbox((0, 0), ' ', font=fonte)[2]
Espaco == LarguraLinha(<<" ">>)

\* the loop of _organizar_palavras_linhas without "or not linha_atual"
RECURSIVE OrganizarLoopSemGuarda(_, _, _, _, _)
OrganizarLoopSemGuarda(palavras, linhas, linha_atual, largura_atual, largura_max) ==
    IF palavras = <<>>
    THEN [linhas |-> linhas, linha_atual |-> linha_atual]
    ELSE LET palavra == Head(palavras)
             largura_palavra == LarguraLinha(palavra)
         IN IF largura_atual + largura_palavra + Espaco <= largura_max
            THEN OrganizarLoopSemGuarda(Tail(palavras), linhas,
                                        Append(linha_atual, palavra),
                                        largura_atual + largura_palavra + Espaco,
                                        largura_max)
            ELSE OrganizarLoopSemGuarda(Tail(palavras), Append(linhas, linha_atual),
                                        <<palavra>>, largura_palavra + Espaco,
                                        largura_max)

\* the loop of _organizar_palavras_linhas, lines 839-849
RECURSIVE OrganizarLoop(_, _, _, _, _)
OrganizarLoop(palavras, linhas, linha_atual, largura_atual, largura_max) ==
    IF palavras = <<>>
    THEN [linhas |-> linhas, linha_atual |-> linha_atual]
    ELSE LET palavra == Head(palavras)
             largura_palavra == LarguraLinha(palavra)
         IN IF \/ largura_atual + largura_palavra + Espaco <= largura_max
               \/ linha_atual = <<>>
            THEN OrganizarLoop(Tail(palavras), linhas,
                               Append(linha_atual, palavra),
                               largura_atual + largura_palavra + Espaco,
                               largura_max)
            ELSE OrganizarLoop(Tail(palavras), Append(linhas, linha_atual),
                               <<palavra>>, largura_palavra + Espaco, largura_max)

OrganizarPalavrasLinhas(palavras, largura_max) ==
    LET r == OrganizarLoop(palavras, <<>>, <<>>, 0, largura_max)
    IN IF r.linha_atual # <<>> THEN Append(r.linhas, r.linha_atual) ELSE r.linhas

\* the words of a list of lines, in order
RECURSIVE Achatar(_)
Achatar(linhas) ==
    IF linhas = <<>> THEN <<>> ELSE Head(linhas) \o Achatar(Tail(linhas))

\* sum(len(l) for l in linhas[:n])
PalavrasAntes(linhas, n) == Len(Achatar(SubSeq(linhas, 1, n)))

\* the window of lines of the scroll mode, lines 737-753
JanelaScroll(linhas_palavras, max_linhas, idx_inicio) ==
    LET n == Len(linhas_palavras)
        achadas == {i \in 1..n : PalavrasAntes(linhas_palavras, i) > idx_inicio}
        linha_atual == IF achadas = {} THEN 0
                       ELSE (CHOOSE i \in achadas : \A j \in achadas : i <= j) - 1
        linhas_antes == max_linhas \div 2
        inicio0 == Max(0, linha_atual - linhas_antes)
        linha_fim == Min(n, inicio0 + max_linhas)
        linha_inicio == IF linha_fim = n THEN Max(0, linha_fim - max_linhas)
                        ELSE inicio0
    IN [linhas_visiveis |-> SubSeq(linhas_palavras, linha_inicio + 1, linha_fim),
        idx_offset |-> PalavrasAntes(linhas_palavras, linha_inicio)]

\* the page of lines of the page mode, lines 755-768
JanelaPagina(linhas_palavras, max_linhas, idx_inicio) ==
    LET n == Len(linhas_palavras)
        pagina(i) == SubSeq(linhas_palavras, i + 1, Min(n, i + max_linhas))
        inicios == {i \in 0..(n - 1) : i % max_linhas = 0}
        achadas == {i \in inicios :
                       PalavrasAntes(linhas_palavras, Min(n, i + max_linhas))
                           > idx_inicio}
    IN IF achadas = {}
       THEN [linhas_visiveis |-> SubSeq(linhas_palavras, 1, Min(n, max_linhas)),
             idx_offset |-> 0]
       ELSE LET i == CHOOSE a \in achadas : \A b \in achadas : a <= b
            IN [linhas_visiveis |-> pagina(i),
                idx_offset |-> PalavrasAntes(linhas_palavras, i)]

\* the words drawn on the frame, each with its idx_palavra_global and
\* whether it is highlighted, lines 775-822
CriarFrame(palavras, idx_inicio, idx_fim, modo_scroll, max_linhas, largura_max) ==
    LET linhas_palavras == OrganizarPalavrasLinhas(palavras, largura_max)
        janela == IF modo_scroll
                  THEN JanelaScroll(linhas_palavras, max_linhas, idx_inicio)
                  ELSE JanelaPagina(linhas_palavras, max_linhas, idx_inicio)
        visiveis == Achatar(janela.linhas_visiveis)
    IN [linhas_palavras |-> linhas_palavras,
        linhas_visiveis |-> janela.linhas_visiveis,
        idx_offset |-> janela.idx_offset,
        desenhadas |->
            [k \in 1..Len(visiveis) |->
                LET idx_palavra_global == janela.idx_offset + k - 1
                IN [palavra |-> visiveis[k],
                    idx_palavra_global |-> idx_palavra_global,
                    destaque |-> /\ idx_inicio <= idx_palavra_global
                                 /\ idx_palavra_global <= idx_fim]]]

\* the words of the narrations laid out
PalavrasFrame == {<<"a">>, <<"b">>, <<"a", "b">>, <<"b", "a", "a", "a", "b">>}
NarracoesFrame == SeqsAte(PalavrasFrame, MaxPalavrasFrame) \ {<<>>}

\* _criar_frame_karaoke(img_base, palavras, idx_inicio, idx_fim, modo_scroll)
\* as _criar_frames_karaoke calls it for a group of one or two words, under
\* config.legendas_linhas on an image that leaves largura_max units
CriarFrameKaraoke ==
    /\ fn_pc = "input"
    /\ \E palavras \in NarracoesFrame, modo_scroll \in BOOLEAN,
          max_linhas \in 1..MaxLinhas, largura_max \in 1..MaxChars :
          \E idx_inicio \in 0..(Len(palavras) - 1) :
            \E idx_fim \in {idx_inicio, Min(idx_inicio + 1, Len(palavras) - 1)} :
              /\ fn_in' = [palavras |-> palavras, idx_inicio |-> idx_inicio,
                           idx_fim |-> idx_fim, modo_scroll |-> modo_scroll,
                           max_linhas |-> max_linhas, largura_max |-> largura_max]
              /\ fn_out' = CriarFrame(palavras, idx_inicio, idx_fim, modo_scroll,
                                      max_linhas, largura_max)
    /\ fn_pc' = "frame"

----------------------------------------------------------------------------
(* GestorPPTX._formatar_tempo_srt (pptx_handler.py 1056-1062).  The time is *)
(* a Python float: the double nearest to ms / 1000.  A double is kept as    *)
(* its integer part and the sequence of its fraction bits, first bit 1/2.   *)

\* significant bits of a double
Mantissa == 53

\* number of bits of n >= 0
RECURSIVE BitLen(_)
BitLen(n) == IF n = 0 THEN 0 ELSE 1 + BitLen(n \div 2)

\* 2^k modulo m, by squaring
RECURSIVE Pow2Mod(_, _)
Pow2Mod(k, m) ==
    IF k = 0 THEN 1 % m
    ELSE LET h == Pow2Mod(k \div 2, m)
         IN (h * h * (IF k % 2 = 1 THEN 2 ELSE 1)) % m

\* the first n fraction bits of resto / divisor (long division), and the
\* remainder left after them
DivBits(resto, divisor, n) ==
    [bits |-> [k \in 1..n |->
                  IF 2 * ((resto * Pow2Mod(k - 1, divisor)) % divisor) >= divisor
                  THEN 1 ELSE 0],
     resto |-> (resto * Pow2Mod(n, divisor)) % divisor]

\* zero bits before the first one bit of the fraction resto / divisor > 0
RECURSIVE ZerosIniciais(_, _)
ZerosIniciais(resto, divisor) ==
    IF 2 * resto >= divisor THEN 0 ELSE 1 + ZerosIniciais(2 * resto, divisor)

\* bits + 1 at the last place: the new bits and the carry out of the first
Incrementar(bits) ==
    LET zeros == SelectSeq([i \in 1..Len(bits) |-> i], LAMBDA i : bits[i] = 0)
    IN IF zeros = <<>>
       THEN [bits |-> [i \in 1..Len(bits) |-> 0], vai |-> 1]
       ELSE LET j == zeros[Len(zeros)]
            IN [bits |-> [i \in 1..Len(bits) |->
                             IF i < j THEN bits[i] ELSE IF i = j THEN 1 ELSE 0],
                vai |-> 0]

\* round to nearest, ties to even: inteiro + 0.bits cut after the first
\* `manter' fraction bits; resto # 0 says that more ones follow bits
Arredondar(inteiro, bits, manter, resto) ==
    IF manter >= Len(bits) THEN [inteiro |-> inteiro, frac |-> bits]
    ELSE LET mantidos == SubSeq(bits, 1, manter)
             guarda == bits[manter + 1]
             cola == resto # 0 \/ \E i \in (manter + 2)..Len(bits) : bits[i] = 1
             impar == IF manter > 0 THEN bits[manter] = 1 ELSE inteiro % 2 = 1
         IN IF guarda = 1 /\ (cola \/ impar)
            THEN LET r == Incrementar(mantidos)
                 IN [inteiro |-> inteiro + r.vai, frac |-> r.bits]
            ELSE [inteiro |-> inteiro, frac |-> mantidos]

\* fraction bits that a double of this integer part and fraction keeps
BitsDeFracao(inteiro, zeros) ==
    IF inteiro > 0 THEN Mantissa - BitLen(inteiro) ELSE zeros + Mantissa

\* float(ms) / 1000: the double nearest to ms / 1000
DoubleDeMs(ms) ==
    LET inteiro == ms \div 1000
        resto == ms % 1000
    IN IF resto = 0 THEN [inteiro |-> inteiro, frac |-> <<>>]
       ELSE LET manter == BitsDeFracao(inteiro, ZerosIniciais(resto, 1000))
                d == DivBits(resto, 1000, manter + 1)
            IN Arredondar(inteiro, d.bits, manter, d.resto)

\* the number written by up to 16 bits
RECURSIVE ValorBits(_)
ValorBits(bits) ==
    IF bits = <<>> THEN 0
    ELSE 2 * ValorBits(SubSeq(bits, 1, Len(bits) - 1)) + bits[Len(bits)]

\* the 16 bits of a number below 65536
BitsDeValor(v) ==
    LET RECURSIVE Pot(_)
        Pot(n) == IF n = 0 THEN 1 ELSE 2 * Pot(n - 1)
    IN [j \in 1..16 |-> (v \div Pot(16 - j)) % 2]

\* 0.bits * fator, exact, in groups of 16 bits from the last to the first:
\* integer part and fraction bits
RECURSIVE VezesLoop(_, _, _, _)
VezesLoop(bits, fator, i, r) ==
    IF i = 0 THEN r
    ELSE LET v == ValorBits(SubSeq(bits, 16 * i - 15, 16 * i)) * fator + r.inteiro
         IN VezesLoop(bits, fator, i - 1,
                      [inteiro |-> v \div 65536,
                       frac |-> BitsDeValor(v % 65536) \o r.frac])

\* frac * fator as a double (float multiplication rounds once)
Vezes(bits, fator) ==
    LET grupos == (Len(bits) + 15) \div 16
        cheios == [i \in 1..(16 * grupos) |-> IF i <= Len(bits) THEN bits[i] ELSE 0]
        p == VezesLoop(cheios, fator, grupos, [inteiro |-> 0, frac |-> <<>>])
        uns == SelectSeq([i \in 1..Len(p.frac) |-> i], LAMBDA i : p.frac[i] = 1)
    IN IF uns = <<>> THEN p
       ELSE Arredondar(p.inteiro, p.frac, BitsDeFracao(p.inteiro, uns[1] - 1), 0)

\* lines 1058-1061: the four fields of the time stamp
FormatarTempoSrt(ms) ==
    LET segundos == DoubleDeMs(ms)
    IN [horas |-> segundos.inteiro \div 3600,
        minutos |-> (segundos.inteiro % 3600) \div 60,
        segs |-> segundos.inteiro % 60,
        milisseg |-> Vezes(segundos.frac, 1000).inteiro]

----------------------------------------------------------------------------
(* Tradutor._dividir_texto_chunks, _dividir_por_frases and                  *)
(* _dividir_por_virgula (tradutor.py 243-365)                               *)

Separadores == {",", ";"}

\* str.split('\n\n'): cut at each pair of newlines, left to right
RECURSIVE SplitParagrafos(_)
SplitParagrafos(s) ==
    LET pares == Indices(s, LAMBDA i : i < Len(s) /\ s[i] = NL /\ s[i + 1] = NL)
    IN IF pares = <<>> THEN <<s>>
       ELSE <<SubSeq(s, 1, pares[1] - 1)>>
            \o SplitParagrafos(SubSeq(s, pares[1] + 2, Len(s)))

\* re.split(r'(?<=[,;])\s*', s): cut after every comma or semicolon, with
\* or without whitespace behind it; the whitespace is dropped
ReSplitVirgulas(s) ==
    LET cortes == Indices(s, LAMBDA i : s[i] \in Separadores)
        retoma(c) == CHOOSE j \in (c + 1)..(Len(s) + 1) :
                        /\ \A k \in (c + 1)..(j - 1) : s[k] \in Brancos
                        /\ (j = Len(s) + 1 \/ s[j] \notin Brancos)
    IN [n \in 1..(Len(cortes) + 1) |->
            SubSeq(s, IF n = 1 THEN 1 ELSE retoma(cortes[n - 1]),
                      IF n = Len(cortes) + 1 THEN Len(s) ELSE cortes[n])]

\* the word loop of _dividir_por_virgula, lines 349-357
RECURSIVE ChunkLoopPalavras(_, _, _, _)
ChunkLoopPalavras(palavras, chunks, chunk_actual, limite) ==
    IF palavras = <<>>
    THEN [chunks |-> chunks, chunk_actual |-> chunk_actual]
    ELSE LET palavra == Head(palavras) IN
         IF Len(chunk_actual) + Len(palavra) + 1 <= limite
         THEN ChunkLoopPalavras(Tail(palavras), chunks,
                                Strip(chunk_actual \o <<" ">> \o palavra), limite)
         ELSE ChunkLoopPalavras(Tail(palavras),
                                IF chunk_actual # <<>>
                                THEN Append(chunks, chunk_actual) ELSE chunks,
                                palavra, limite)

\* the loop of _dividir_por_virgula, lines 337-359
RECURSIVE VirgulaLoop(_, _, _, _)
VirgulaLoop(partes, chunks, chunk_actual, limite) ==
    IF partes = <<>>
    THEN [chunks |-> chunks, chunk_actual |-> chunk_actual]
    ELSE LET parte == Strip(Head(partes)) IN
         IF parte = <<>>
         THEN VirgulaLoop(Tail(partes), chunks, chunk_actual, limite)
         ELSE IF Len(chunk_actual) + Len(parte) + 1 <= limite
         THEN VirgulaLoop(Tail(partes), chunks,
                          Strip(chunk_actual \o <<" ">> \o parte), limite)
         ELSE LET guardados == IF chunk_actual # <<>>
                               THEN Append(chunks, chunk_actual) ELSE chunks
              IN IF Len(parte) > limite
                 THEN LET r == ChunkLoopPalavras(Split(parte), guardados, <<>>,
                                                 limite)
                      IN VirgulaLoop(Tail(partes), r.chunks, r.chunk_actual, limite)
                 ELSE VirgulaLoop(Tail(partes), guardados, parte, limite)

\* what the three functions return from the state of their loop
FecharChunks(r, texto, limite) ==
    LET chunks == IF r.chunk_actual # <<>>
                  THEN Append(r.chunks, r.chunk_actual) ELSE r.chunks
    IN IF chunks # <<>> THEN chunks ELSE <<Prefixo(texto, limite)>>

DividirPorVirgula(texto, limite) ==
    FecharChunks(VirgulaLoop(ReSplitVirgulas(texto), <<>>, <<>>, limite),
                 texto, limite)

\* the loop of _dividir_por_frases, lines 303-320
RECURSIVE FrasesLoop(_, _, _, _)
FrasesLoop(frases, chunks, chunk_actual, limite) ==
    IF frases = <<>>
    THEN [chunks |-> chunks, chunk_actual |-> chunk_actual]
    ELSE LET frase == Strip(Head(frases)) IN
         IF frase = <<>>
         THEN FrasesLoop(Tail(frases), chunks, chunk_actual, limite)
         ELSE IF Len(chunk_actual) + Len(frase) + 1 <= limite
         THEN FrasesLoop(Tail(frases), chunks,
                         Strip(chunk_actual \o <<" ">> \o frase), limite)
         ELSE LET guardados == IF chunk_actual # <<>>
                               THEN Append(chunks, chunk_actual) ELSE chunks
              IN IF Len(frase) > limite
                 THEN LET sub_chunks == DividirPorVirgula(frase, limite)
                      IN FrasesLoop(Tail(frases),
                                    guardados \o SubSeq(sub_chunks, 1,
                                                        Len(sub_chunks) - 1),
                                    sub_chunks[Len(sub_chunks)], limite)
                 ELSE FrasesLoop(Tail(frases), guardados, frase, limite)

DividirPorFrases(texto, limite) ==
    FecharChunks(FrasesLoop(ReSplitFrases(texto), <<>>, <<>>, limite),
                 texto, limite)

\* the loop of _dividir_texto_chunks, lines 266-284
RECURSIVE ParagrafosLoop(_, _, _, _)
ParagrafosLoop(paragrafos, chunks, chunk_actual, limite) ==
    IF paragrafos = <<>>
    THEN [chunks |-> chunks, chunk_actual |-> chunk_actual]
    ELSE LET paragrafo == Strip(Head(paragrafos)) IN
         IF paragrafo = <<>>
         THEN ParagrafosLoop(Tail(paragrafos), chunks, chunk_actual, limite)
         ELSE IF Len(chunk_actual) + Len(paragrafo) + 2 <= limite
         THEN ParagrafosLoop(Tail(paragrafos), chunks,
                             Strip(chunk_actual \o <<NL, NL>> \o paragrafo),
                             limite)
         ELSE LET guardados == IF chunk_actual # <<>>
                               THEN Append(chunks, chunk_actual) ELSE chunks
              IN IF Len(paragrafo) > limite
                 THEN LET sub_chunks == DividirPorFrases(paragrafo, limite)
                      IN ParagrafosLoop(Tail(paragrafos),
                                        guardados \o SubSeq(sub_chunks, 1,
                                                            Len(sub_chunks) - 1),
                                        sub_chunks[Len(sub_chunks)], limite)
                 ELSE ParagrafosLoop(Tail(paragrafos), guardados, paragrafo,
                                     limite)

DividirTextoChunks(texto_in, limite) ==
    LET texto == Strip(texto_in) IN
    IF Len(texto) <= limite THEN <<texto>>
    ELSE FecharChunks(ParagrafosLoop(SplitParagrafos(texto), <<>>, <<>>, limite),
                      texto, limite)

\* the texts given to the chunker
AlfabetoChunks == Alfabeto \cup {","}
TextosChunks == SeqsAte(AlfabetoChunks, MaxLen - 1)

\* _dividir_texto_chunks(texto, limite)
DividirChunks ==
    /\ fn_pc = "input"
    /\ \E texto \in TextosChunks, limite \in 1..MaxChars :
          /\ fn_in' = [texto |-> texto, limite |-> limite]
          /\ fn_out' = DividirTextoChunks(texto, limite)
    /\ fn_pc' = "chunks"

\* the times formatted: every millisecond up to MaxMs and some long ones
TemposMs == (0..MaxMs) \cup {3599999, 3600000, 3661001, 86399999}

\* _formatar_tempo_srt(ms / 1000)
FormatarTempo ==
    /\ fn_pc = "input"
    /\ \E ms \in TemposMs :
          /\ fn_in' = [ms |-> ms]
          /\ fn_out' = FormatarTempoSrt(ms)
    /\ fn_pc' = "tempo"

----------------------------------------------------------------------------
(* Specifications *)

InitFnVars ==
    /\ fn_pc = "input"
    /\ fn_in = <<>>
    /\ fn_out = <<>>

InitSrtVars ==
    /\ s_pc = "idle"
    /\ s_params = [usar_traducao |-> FALSE, tempo_extra |-> 0,
                   tempo_minimo |-> TempoMinimoSlide,
                   max_chars_segmento |-> MaxCharsSegmentoSrt]
    /\ s_i = 0
    /\ s_slide = SemSlide
    /\ tempo_atual = 0
    /\ contador = 1
    /\ linhas_srt = <<>>

\* video generation
Init ==
    /\ config \in Configs
    /\ v_pc = "idle"
    /\ v_nclips = 0
    /\ v_slide = SemSlide
    /\ v_res = SemRes
    /\ v_frames = <<>>
    /\ ficheiros_temp = 0
    /\ pasta_temp_base = FALSE
    /\ InitSegVars
    /\ InitSrtVars
    /\ InitPlayerVars
    /\ InitTimerVars
    /\ InitFnVars

Next ==
    \/ IniciarVideo /\ UNCHANGED <<segVars, srtVars, playerVars, timerVars, fnVars>>
    \/ ProcessarSlide /\ UNCHANGED <<segVars, srtVars, playerVars, timerVars, fnVars>>
    \/ ProximoSlide /\ UNCHANGED <<segVars, srtVars, playerVars, timerVars, fnVars>>
    \/ ConcluirVideo /\ UNCHANGED <<segVars, srtVars, playerVars, timerVars, fnVars>>

Spec == Init /\ [][Next]_vars

\* the segmenters as pure functions of a text
InitSeg ==
    /\ seg_pc = "input"
    /\ seg_texto \in Textos
    /\ seg_max = 0
    /\ seg_out = <<>>
    /\ InitVideoVars
    /\ InitSrtVars
    /\ InitPlayerVars
    /\ InitTimerVars
    /\ InitFnVars

NextSeg ==
    \/ SegmentarSrt /\ UNCHANGED <<videoVars, srtVars, playerVars, timerVars, fnVars>>
    \/ SegmentarVideo /\ UNCHANGED <<videoVars, srtVars, playerVars, timerVars, fnVars>>
    \/ FormatarSrt /\ UNCHANGED <<videoVars, srtVars, playerVars, timerVars, fnVars>>

SpecSeg == InitSeg /\ [][NextSeg]_vars

\* subtitle generation
InitSrt ==
    /\ s_pc = "idle"
    /\ s_params \in ParamsSrt
    /\ s_i = 0
    /\ s_slide = SemSlide
    /\ tempo_atual = 0
    /\ contador = 1
    /\ linhas_srt = <<>>
    /\ InitSegVars
    /\ InitVideoVars
    /\ InitPlayerVars
    /\ InitTimerVars
    /\ InitFnVars

NextSrt ==
    \/ IniciarSrt /\ UNCHANGED <<segVars, videoVars, playerVars, timerVars, fnVars>>
    \/ ProcessarSlideSrt /\ UNCHANGED <<segVars, videoVars, playerVars, timerVars, fnVars>>
    \/ ConcluirSrt /\ UNCHANGED <<segVars, videoVars, playerVars, timerVars, fnVars>>

SpecSrt == InitSrt /\ [][NextSrt]_vars

\* the player's word timings
InitPlayer ==
    /\ InitPlayerVars
    /\ InitTimerVars
    /\ InitFnVars
    /\ InitSegVars
    /\ InitVideoVars
    /\ InitSrtVars

NextPlayer ==
    \/ LoadKaraokeText /\ UNCHANGED <<segVars, videoVars, srtVars, timerVars, fnVars>>
    \/ OnAudioLoaded /\ UNCHANGED <<segVars, videoVars, srtVars, timerVars, fnVars>>

SpecPlayer == InitPlayer /\ [][NextPlayer]_vars

\* the player's play, pause and karaoke timer
NextTimers ==
    \/ IniciarPlayer /\ UNCHANGED <<segVars, videoVars, srtVars, playerVars, fnVars>>
    \/ CarregarSlide /\ UNCHANGED <<segVars, videoVars, srtVars, playerVars, fnVars>>
    \/ TogglePlay /\ UNCHANGED <<segVars, videoVars, srtVars, playerVars, fnVars>>
    \/ TimeoutPlay /\ UNCHANGED <<segVars, videoVars, srtVars, playerVars, fnVars>>
    \/ OnAudioEnded /\ UNCHANGED <<segVars, videoVars, srtVars, playerVars, fnVars>>
    \/ TimeoutNextSlide /\ UNCHANGED <<segVars, videoVars, srtVars, playerVars, fnVars>>

SpecTimers == InitPlayer /\ [][NextTimers]_vars

\* the layout of the captions as pure functions
InitLegenda ==
    /\ InitFnVars
    /\ InitSegVars
    /\ InitVideoVars
    /\ InitSrtVars
    /\ InitPlayerVars
    /\ InitTimerVars

NextLegenda ==
    \/ AdicionarLegendaImagem /\ UNCHANGED <<segVars, videoVars, srtVars, playerVars, timerVars>>

SpecLegenda == InitLegenda /\ [][NextLegenda]_vars

\* the time stamps as a pure function
NextTempo ==
    \/ FormatarTempo /\ UNCHANGED <<segVars, videoVars, srtVars, playerVars, timerVars>>

SpecTempo == InitLegenda /\ [][NextTempo]_vars

\* a karaoke frame as a pure function
NextFrame ==
    \/ CriarFrameKaraoke /\ UNCHANGED <<segVars, videoVars, srtVars, playerVars, timerVars>>

SpecFrame == InitLegenda /\ [][NextFrame]_vars

\* the translation chunker as a pure function
NextChunks ==
    \/ DividirChunks /\ UNCHANGED <<segVars, videoVars, srtVars, playerVars, timerVars>>

SpecChunks == InitLegenda /\ [][NextChunks]_vars

----------------------------------------------------------------------------
(* Claims about gerar_video (specification Spec) *)

\* exact sum of the durations of a list of clips
RECURSIVE SomaDuracoes(_)
SomaDuracoes(clips) ==
    IF clips = <<>> THEN Frac(0, 1)
    ELSE LET d == Head(clips).duracao
             r == SomaDuracoes(Tail(clips))
         IN Frac(d[1] * r[2] + r[1] * d[2], d[2] * r[2])

FracIgual(x, y) == x[1] * y[2] = y[1] * x[2]

ComAudio(clips) == {i \in 1..Len(clips) : clips[i].audio}

\* C1: with padding >= 0, the durations of the clips emitted for a slide
\* (karaoke, segmented captions or a single clip) add up to the slide's
\* duration: audio duration + tempo_extra_slide, or tempo_minimo_slide.
C1_DuracaoConservada ==
    (v_pc = "emitido" /\ config.tempo_extra_slide >= 0)
        => /\ v_frames # <<>>
           /\ FracIgual(SomaDuracoes(v_frames),
                        Frac(IF v_res.duracao_audio > 0
                             THEN v_res.duracao_audio + config.tempo_extra_slide
                             ELSE config.tempo_minimo_slide, 1))

C1_Witness ==
    /\ v_pc = "emitido"
    /\ config.karaoke_ativo
    /\ config.tempo_extra_slide > 0
    /\ Len(v_frames) > 1
    /\ v_res.audio_path # "none"
    /\ v_res.duracao_audio_real < v_res.duracao_audio

\* every audio of the slide is either a file that decodes or no file and no
\* stored length: the slides on which "the audio is present" has one meaning
SlideIntegro(slide) ==
    /\ slide.info
    /\ slide.caminho_audio.legivel \/ slide.duracao_audio = 0
    /\ slide.caminho_audio_traduzido.legivel \/ slide.duracao_audio_traduzido = 0
    /\ ~FicheiroCorrupto \in {slide.caminho_audio, slide.caminho_audio_traduzido}

\* what the timeline builder of the specification computes for a slide
DuracaoUsadaSpec(slide, res, usar_audio_traduzido) ==
    LET escolhida == IF usar_audio_traduzido THEN res.duracao_trad ELSE res.duracao_orig
        outra == IF usar_audio_traduzido THEN res.duracao_orig ELSE res.duracao_trad
    IN IF escolhida > 0 THEN escolhida ELSE IF outra > 0 THEN outra ELSE 0

\* C2: total_duration = (duration of the selected language's audio, else of
\* the other language's, else 0) + padding when that is > 0, else the
\* minimum; with both audios present the selected one governs.
C2_DuracaoDoIdiomaEscolhido ==
    (v_pc = "emitido" /\ SlideIntegro(v_slide))
        => LET usada == DuracaoUsadaSpec(v_slide, v_res, config.usar_audio_traduzido)
           IN v_res.duracao = IF usada > 0
                              THEN usada + config.tempo_extra_slide
                              ELSE config.tempo_minimo_slide

ExisteAudio(slide) ==
    slide.caminho_audio.existe \/ slide.caminho_audio_traduzido.existe

\* C3: when an audio file exists in at least one language exactly one clip,
\* the first, carries audio, whichever language was selected; no clip
\* carries audio only when no audio exists in either language.
C3_AudioComFallback ==
    (v_pc = "emitido" /\ SlideIntegro(v_slide) /\ config.tempo_extra_slide >= 0)
        => /\ ExisteAudio(v_slide) => ComAudio(v_frames) = {1}
           /\ ComAudio(v_frames) = {} => ~ExisteAudio(v_slide)

\* C4: among the clips of one slide at most one carries audio, and it is
\* the first, in karaoke, segmented-caption and plain mode alike.
C4_AudioSoNoPrimeiro ==
    v_pc = "emitido" => ComAudio(v_frames) \subseteq {1}

C4_Witness ==
    /\ v_pc = "emitido"
    /\ config.karaoke_ativo
    /\ Len(v_frames) >= 3
    /\ ComAudio(v_frames) = {1}

\* the selected language has no audio file and the other language's
\* duration is the one used
FallbackOcorreu(slide, res, usar_audio_traduzido) ==
    LET escolhido == IF usar_audio_traduzido
                     THEN slide.caminho_audio_traduzido ELSE slide.caminho_audio
        outra == IF usar_audio_traduzido THEN res.duracao_orig ELSE res.duracao_trad
    IN ~escolhido.existe /\ outra > 0 /\ res.duracao_audio_real = outra

\* C5: whenever the selected language's audio is missing and the other
\* language's duration is used, the progress channel reports a fallback for
\* the slide, in both directions.
C5_FallbackObservavel ==
    (v_pc = "emitido" /\ SlideIntegro(v_slide) /\ config.tempo_extra_slide >= 0
       /\ FallbackOcorreu(v_slide, v_res, config.usar_audio_traduzido))
        => \E r \in v_res.relatos : r \in {"fallback ORIGINAL", "fallback TRADUZIDO"}

\* C6: the duration of a slide is always > 0, and a slide with no audio in
\* either language gets exactly the minimum duration.
C6_DuracaoPositiva ==
    (v_pc = "emitido" /\ SlideIntegro(v_slide))
        => /\ v_res.duracao > 0
           /\ (~ExisteAudio(v_slide) => v_res.duracao = config.tempo_minimo_slide)

\* the arguments of gerar_srt that repeat a video configuration
ParamsDe(cfg) ==
    [usar_traducao |-> cfg.usar_audio_traduzido,
     tempo_extra |-> cfg.tempo_extra_slide,
     tempo_minimo |-> cfg.tempo_minimo_slide,
     max_chars_segmento |-> MaxCharsSegmentoSrt]

\* C21: for the same slide, language choice, padding and minimum duration
\* the duration of the slide computed by gerar_srt equals the total duration
\* computed by gerar_video.
C21_MesmaLinhaDoTempo ==
    (v_pc = "emitido" /\ SlideIntegro(v_slide) /\ config.tempo_extra_slide >= 0)
        => v_res.duracao = DuracaoSlideSrt(v_slide, ParamsDe(config))

\* the words of the captions drawn on a run of clips, in order
RECURSIVE PalavrasLegendadas(_)
PalavrasLegendadas(clips) ==
    IF clips = <<>> THEN <<>>
    ELSE Split(Head(clips).conteudo) \o PalavrasLegendadas(Tail(clips))

\* C23: the text of the embedded captions of a slide, in karaoke mode and
\* in segmented-caption mode, comes from the source gerar_srt uses under the
\* same language setting: the translated text when selected and not empty,
\* otherwise the original narration.
C23_MesmaFonteDeTexto ==
    (v_pc = "emitido" /\ v_slide.info /\ config.legendas_embutidas)
        => IF config.karaoke_ativo
           THEN TextoKaraoke(v_slide, config)
                    = TextoSrt(v_slide, config.karaoke_usar_traducao)
           ELSE /\ TextoLegenda(v_slide, config)
                    = TextoSrt(v_slide, config.legendas_usar_traducao)
                /\ PalavrasLegendadas(v_frames)
                    = Split(TextoSrt(v_slide, config.legendas_usar_traducao))

\* C26: whenever gerar_video returns, with True or with False, every
\* temporary file registered during the run has been removed, the registry
\* is empty and the temp folder of the run is released.
C26_TemporariosLibertados ==
    v_pc \in {"ok", "falhou"} => (ficheiros_temp = 0 /\ ~pasta_temp_base)

----------------------------------------------------------------------------
(* Claims about the segmenters (specification SpecSeg) *)

\* whitespace-normalized text: its words joined by single spaces
NormalizarBrancos(texto) == Join(Split(texto))

TemBranco(texto) == \E i \in 1..Len(texto) : texto[i] \in Brancos

\* C8: joining the segments with single spaces and normalizing whitespace
\* gives the whitespace-normalized input: no word is dropped, duplicated,
\* reordered or split.
C8_RoundTrip ==
    seg_pc \in {"srt", "video"}
        => NormalizarBrancos(Join(seg_out)) = NormalizarBrancos(seg_texto)

C8_Witness ==
    /\ seg_pc = "srt"
    /\ Len(seg_out) >= 2
    /\ \E i \in 1..Len(seg_out) : TemBranco(seg_out[i])
    /\ Len(Split(seg_texto)) >= 3
    /\ Len(ReSplitFrases(Normalizar(seg_texto))) = 1

C10_VazioDaListaVazia ==
    (seg_pc \in {"srt", "video"} /\ Strip(seg_texto) = <<>>) => seg_out = <<>>

\* the lines of a rendered text: the pieces between newlines
LinhasDe(s) ==
    LET quebra(i) == s[i] = NL
        quebras == Indices(s, quebra)
    IN [n \in 1..(Len(quebras) + 1) |->
            SubSeq(s, IF n = 1 THEN 1 ELSE quebras[n - 1] + 1,
                      IF n = Len(quebras) + 1 THEN Len(s) ELSE quebras[n] - 1)]

\* C19 as claimed: a rendered subtitle text has at most 2 lines and every
\* line has at most max_chars_linha characters.
C19_Original ==
    seg_pc = "fmt"
        => LET linhas == LinhasDe(seg_out[1]) IN
           /\ Len(linhas) <= 2
           /\ \A i \in 1..Len(linhas) : Len(linhas[i]) <= seg_max

\* C19 amended: a rendered subtitle text has at most 2 lines and every line
\* has at most max_chars_linha characters, unless the line is a single word
\* that is itself longer than that.
C19_DuasLinhasLimitadas ==
    seg_pc = "fmt"
        => LET linhas == LinhasDe(seg_out[1]) IN
           /\ Len(linhas) <= 2
           /\ \A i \in 1..Len(linhas) :
                 \/ Len(linhas[i]) <= seg_max
                 \/ ~TemBranco(linhas[i])

C19_Witness ==
    /\ seg_pc = "fmt"
    /\ Len(LinhasDe(seg_out[1])) = 2
    /\ Len(LinhasDe(seg_out[1])[1]) > seg_max
    /\ Len(LinhasDe(seg_out[1])[2]) = seg_max
    /\ TemBranco(LinhasDe(seg_out[1])[2])

\* C22: the caption segmenter of the video and the segmenter of the
\* subtitles return the same ordered list of segments for every text under
\* the same limit, exact fits included.
C22_MesmoSegmentador ==
    seg_pc = "video" => seg_out = DividirTextoSegmentosSrt(seg_texto, seg_max)

C22_Witness ==
    /\ seg_pc = "video"
    /\ Len(seg_out) = 2
    /\ Len(seg_out[1]) = seg_max
    /\ \E i \in 1..Len(seg_out[1]) : seg_out[1][i] = "."
    /\ \E i \in 2..(Len(seg_out[1]) - 1) : seg_out[1][i] = " "

----------------------------------------------------------------------------
(* Claims about gerar_srt (specification SpecSrt) *)

FracMenorIgual(x, y) == x[1] * y[2] <= y[1] * x[2]

\* C7: the entries of the subtitle track are numbered 1, 2, ..., N in
\* emission order and no entry ends after the next one starts, also across
\* slide boundaries.
C7_EntradasOrdenadas ==
    /\ \A i \in 1..Len(linhas_srt) : linhas_srt[i].contador = i
    /\ \A i \in 1..(Len(linhas_srt) - 1) :
          FracMenorIgual(linhas_srt[i].fim, linhas_srt[i + 1].inicio)

\* a step of gerar_srt that consumes one slide
PassoSlideSrt == s_i' = s_i + 1

\* the slide of a step emits num entries that tile [clock, clock + total]
CobreSlide(entradas, clock, total) ==
    LET num == Len(entradas) IN
    /\ \A idx \in 1..num :
          /\ FracIgual(entradas[idx].inicio, Frac(clock * num + (idx - 1) * total, num))
          /\ entradas[idx].fim[1] * entradas[idx].inicio[2] * num
                - entradas[idx].inicio[1] * entradas[idx].fim[2] * num
                = total * entradas[idx].fim[2] * entradas[idx].inicio[2]
    /\ FracIgual(entradas[1].inicio, Frac(clock, 1))
    /\ FracIgual(entradas[num].fim, Frac(clock + total, 1))

C18_SlideSemTextoAvanca ==
    [][(PassoSlideSrt /\ Strip(TextoSrt(s_slide', s_params.usar_traducao)) = <<>>)
          => /\ linhas_srt' = linhas_srt
             /\ contador' = contador
             /\ tempo_atual' = tempo_atual + DuracaoSlideSrt(s_slide', s_params)]_vars

C18_Witness ==
    /\ s_i = MaxSlides
    /\ s_params.tempo_extra >= 0
    /\ Strip(TextoSrt(s_slide, s_params.usar_traducao)) # <<>>
    /\ Len(linhas_srt) = 1
    /\ tempo_atual = 3 * s_params.tempo_minimo
    /\ FracIgual(linhas_srt[1].inicio, Frac(2 * s_params.tempo_minimo, 1))

\* the words of the rendered texts of a run of entries, in order
RECURSIVE PalavrasRenderizadas(_)
PalavrasRenderizadas(entradas) ==
    IF entradas = <<>> THEN <<>>
    ELSE Split(Head(entradas).texto_formatado)
         \o PalavrasRenderizadas(Tail(entradas))

\* the entries of the slide processed last
EntradasDoUltimoSlide ==
    LET n == Len(SegmentosSrt(s_slide, s_params))
    IN SubSeq(linhas_srt, Len(linhas_srt) - n + 1, Len(linhas_srt))

\* C20: for every slide with text, the words of the rendered texts of its
\* subtitle entries, read in order, are exactly the words of the slide's
\* narration text; wrapping an entry to two lines never drops a word.
C20_NarracaoCompleta ==
    (s_pc = "loop" /\ s_i > 0 /\ s_params.tempo_extra >= 0
        /\ Strip(TextoSrt(s_slide, s_params.usar_traducao)) # <<>>)
    => PalavrasRenderizadas(EntradasDoUltimoSlide)
          = Split(TextoSrt(s_slide, s_params.usar_traducao))

\* C25: a padding so negative that the total duration of a slide is negative
\* is a structurally invalid input: the run reports failure and emits no
\* entry, instead of entries that end before they start.
C25_EntradaInvalidaFalha ==
    (s_i > 0 /\ DuracaoSlideSrt(s_slide, s_params) < 0
        /\ Strip(TextoSrt(s_slide, s_params.usar_traducao)) # <<>>)
        => (s_pc = "falhou" /\ linhas_srt = <<>>)

----------------------------------------------------------------------------
(* Claims about the word timing estimator (specification SpecPlayer) *)

FracZero(x) == x[1] = 0

RECURSIVE Mdc(_, _)
Mdc(a, b) == IF b = 0 THEN a ELSE Mdc(b, a % b)

\* x in lowest terms (x[1] >= 0, x[2] > 0)
FracReduzida(x) ==
    LET g == Mdc(x[1], x[2]) IN Frac(x[1] \div g, x[2] \div g)

\* sum of end - start over a list of windows
RECURSIVE SomaJanelas(_)
SomaJanelas(janelas) ==
    IF janelas = <<>> THEN Frac(0, 1)
    ELSE LET j == Head(janelas)
             r == SomaJanelas(Tail(janelas))
             c == FracReduzida(Frac(j.end[1] * j.start[2] - j.start[1] * j.end[2],
                                    j.end[2] * j.start[2]))
         IN FracReduzida(Frac(c[1] * r[2] + r[1] * c[2], c[2] * r[2]))

\* C11: for n >= 1 words and a duration d > 0 the windows are contiguous
\* (each ends where the next starts), the first starts at 0, the last ends
\* at d, and their lengths add up to d.
C11_JanelasContiguas ==
    wordTimings # <<>>
        => LET n == Len(wordTimings) IN
           /\ p_duration > 0
           /\ FracZero(wordTimings[1].start)
           /\ FracIgual(wordTimings[n].end, Frac(p_duration, 1))
           /\ \A i \in 1..(n - 1) :
                 FracIgual(wordTimings[i].end, wordTimings[i + 1].start)
           /\ \A i \in 1..n :
                 ~FracMenorIgual(wordTimings[i].end, wordTimings[i].start)
           /\ FracIgual(SomaJanelas(wordTimings), Frac(p_duration, 1))

C11_Witness ==
    /\ Len(wordTimings) >= 3
    /\ currentWordCount = Len(wordTimings)
    /\ p_duration % Len(wordTimings) # 0

----------------------------------------------------------------------------
(* Claims about the karaoke frames (specification Spec) *)

\* the slide of the state was rendered as karaoke frames
KaraokeEmitido ==
    /\ v_pc = "emitido"
    /\ v_frames # <<>>
    /\ v_frames[1].tipo = "karaoke"

\* ... from a sound slide with its selected audio attached, padding >= 0
KaraokeComAudio ==
    /\ KaraokeEmitido
    /\ SlideIntegro(v_slide)
    /\ config.tempo_extra_slide >= 0
    /\ v_res.audio_path = (IF config.usar_audio_traduzido THEN "trad" ELSE "orig")

\* number of words of the karaoke text and the duration they are timed over
NumPalavrasKaraoke == Len(Split(Strip(TextoKaraoke(v_slide, config))))
DuracaoPalavrasKaraoke == DuracaoParaPalavras(v_res.duracao, v_res.duracao_audio_real)

\* ceil(a / b) for a >= 0, b > 0
Teto(a, b) == (a + b - 1) \div b

\* number of words shown by a frame
PalavrasDoFrame(clip) == clip.conteudo[2] - clip.conteudo[1] + 1

\* C12: when duration / word_count < 0.3 s the words are grouped into
\* batches of exactly ceil(0.3 / (duration / word_count)) words, the last
\* batch holding the remainder.
C12_LotesDeTeto ==
    (KaraokeComAudio
       /\ DuracaoPalavrasKaraoke < MinTempoFrame * NumPalavrasKaraoke)
        => LET lote == Teto(MinTempoFrame * NumPalavrasKaraoke, DuracaoPalavrasKaraoke)
               num_frames == Len(v_frames)
           IN /\ num_frames = Teto(NumPalavrasKaraoke, lote)
              /\ \A i \in 1..(num_frames - 1) : PalavrasDoFrame(v_frames[i]) = lote
              /\ PalavrasDoFrame(v_frames[num_frames])
                    = NumPalavrasKaraoke - (num_frames - 1) * lote

\* C13: when the audio lasts at least 0.3 s every karaoke frame except
\* possibly the last stays on screen for at least 0.3 s.
C13_FrameVisivel ==
    (KaraokeComAudio /\ v_res.duracao_audio_real >= MinTempoFrame)
        => \A i \in 1..(Len(v_frames) - 1) :
              FracMenorIgual(Frac(MinTempoFrame, 1), v_frames[i].duracao)

\* C14: each karaoke frame lasts the span of its word group, (words in the
\* group) x (audio duration / word count); only the last frame is
\* lengthened, by the padding.
C14_DuracaoDoGrupo ==
    KaraokeComAudio
        => \A i \in 1..Len(v_frames) :
              FracIgual(v_frames[i].duracao,
                        Frac(PalavrasDoFrame(v_frames[i]) * DuracaoPalavrasKaraoke
                                + (IF i = Len(v_frames)
                                   THEN (v_res.duracao - DuracaoPalavrasKaraoke)
                                            * NumPalavrasKaraoke
                                   ELSE 0),
                             NumPalavrasKaraoke))

\* C15: the words are timed over the audio duration used, not over the
\* slide duration: the frame durations with the last one reduced by
\* (slide duration - audio duration used) add up to the audio duration
\* used, and no frame but the last contains padding.
C15_TempoSobreAudio ==
    (KaraokeEmitido /\ SlideIntegro(v_slide)
       /\ v_res.audio_path = (IF config.usar_audio_traduzido THEN "trad" ELSE "orig"))
        => LET usada == v_res.duracao_audio_real
               num_frames == Len(v_frames)
               soma == SomaDuracoes(v_frames)
           IN /\ soma[1] - (v_res.duracao - usada) * soma[2] = usada * soma[2]
              /\ \A i \in 1..(num_frames - 1) :
                    FracIgual(v_frames[i].duracao, Frac(usada, num_frames))

\* the slide has no text to narrate or to show, in either language
SlideSemTexto(slide) ==
    /\ Strip(slide.texto_narrar) = <<>>
    /\ Strip(slide.texto_traduzido) = <<>>

\* C16: a slide whose narration text is empty or whitespace-only gives
\* exactly one frame, without caption or highlight, that lasts the slide's
\* duration and carries the slide's audio if there is one; the run goes on.
C16_SlideVazioUmFrame ==
    (v_pc \in {"emitido", "falhou"} /\ SlideIntegro(v_slide) /\ SlideSemTexto(v_slide)
       /\ config.tempo_extra_slide >= 0)
        => /\ v_pc = "emitido"
           /\ Len(v_frames) = 1
           /\ v_frames[1].tipo = "simples"
           /\ v_frames[1].conteudo = <<>>
           /\ FracIgual(v_frames[1].duracao, Frac(v_res.duracao, 1))
           /\ v_frames[1].audio <=> ExisteAudio(v_slide)

----------------------------------------------------------------------------
(* Claims about the layout of the captions (specification SpecLegenda) *)

\* C24: a caption is drawn on at most max_linhas lines; when the wrap gives
\* more lines the caption is cut to exactly max_linhas lines and the last
\* visible line ends with an ellipsis.
C24_LegendaCortada ==
    fn_pc = "legenda"
        => LET quebradas == QuebrarTextoLargura(Normalizar(fn_in.texto),
                                                fn_in.largura_max)
           IN /\ Len(fn_out) <= fn_in.max_linhas
              /\ Len(quebradas) > fn_in.max_linhas
                    => /\ Len(fn_out) = fn_in.max_linhas
                       /\ TerminaEmReticencias(fn_out[fn_in.max_linhas])
                       /\ \A i \in 1..(fn_in.max_linhas - 1) :
                             fn_out[i] = quebradas[i]
              /\ Len(quebradas) <= fn_in.max_linhas => fn_out = quebradas

C24_Witness ==
    /\ fn_pc = "legenda"
    /\ fn_in.max_linhas = 2
    /\ Len(QuebrarTextoLargura(Normalizar(fn_in.texto), fn_in.largura_max)) = 3
    /\ fn_out[2] = Reticencias
    /\ fn_out[1] # Reticencias


----------------------------------------------------------------------------
(* Claims about the time stamps (specification SpecTempo) *)

\* the milliseconds a time stamp stands for
ValorTempo(r) == r.horas * 3600000 + r.minutos * 60000 + r.segs * 1000 + r.milisseg

\* C27: for a time of ms whole milliseconds the fields HH:MM:SS,mmm have
\* MM < 60, SS < 60, mmm < 1000 and stand for exactly ms milliseconds, and
\* the time stamp of an earlier time is not later.
C27_TempoExato ==
    fn_pc = "tempo"
        => /\ fn_out.minutos < 60 /\ fn_out.segs < 60 /\ fn_out.milisseg < 1000
           /\ ValorTempo(fn_out) = fn_in.ms
           /\ fn_in.ms > 0
                 => ValorTempo(FormatarTempoSrt(fn_in.ms - 1)) <= ValorTempo(fn_out)


----------------------------------------------------------------------------
(* Claims about the translation chunker (specification SpecChunks) *)

\* the words of a list of chunks, in order
RECURSIVE PalavrasDosChunks(_)
PalavrasDosChunks(chunks) ==
    IF chunks = <<>> THEN <<>>
    ELSE Split(Head(chunks)) \o PalavrasDosChunks(Tail(chunks))

\* C28: the words of the chunks, read in order, are exactly the words of
\* the text: no word is split, dropped or repeated, also when it holds a
\* comma or a semicolon.
C28_ChunksRespeitamPalavras ==
    fn_pc = "chunks" => PalavrasDosChunks(fn_out) = Split(fn_in.texto)


----------------------------------------------------------------------------
(* Claims about the layout of a karaoke frame (specification SpecFrame) *)

\* C29: the lines of _organizar_palavras_linhas hold no empty line and,
\* put together in order, are the word list; every word drawn on the
\* frame carries the index of its position in the narration; a word wider
\* than the line is alone on its line.
C29_LinhasConservamPalavras ==
    fn_pc = "frame" =>
        LET linhas == fn_out.linhas_palavras
            visiveis == Achatar(fn_out.linhas_visiveis)
        IN /\ \A i \in 1..Len(linhas) : linhas[i] # <<>>
           /\ Achatar(linhas) = fn_in.palavras
           /\ Len(fn_out.desenhadas) = Len(visiveis)
           /\ \A k \in 1..Len(fn_out.desenhadas) :
                 LET d == fn_out.desenhadas[k]
                 IN /\ d.idx_palavra_global = fn_out.idx_offset + k - 1
                    /\ d.idx_palavra_global + 1 \in 1..Len(fn_in.palavras)
                    /\ fn_in.palavras[d.idx_palavra_global + 1] = d.palavra
           /\ visiveis = SubSeq(fn_in.palavras, fn_out.idx_offset + 1,
                                fn_out.idx_offset + Len(visiveis))
           /\ \A i \in 1..Len(linhas) :
                 (\E j \in 1..Len(linhas[i]) :
                     LarguraLinha(linhas[i][j]) > fn_in.largura_max)
                 => Len(linhas[i]) = 1

\* a frame of a later page whose lines hold an over-wide word and a line
\* of two words
C29_Witness ==
    /\ fn_pc = "frame"
    /\ fn_out.idx_offset > 0
    /\ fn_out.desenhadas # <<>>
    /\ \E i \in 1..Len(fn_out.linhas_palavras) :
          /\ Len(fn_out.linhas_palavras[i]) = 1
          /\ LarguraLinha(fn_out.linhas_palavras[i][1]) > fn_in.largura_max
    /\ \E i \in 1..Len(fn_out.linhas_palavras) :
          Len(fn_out.linhas_palavras[i]) = 2


----------------------------------------------------------------------------
(* Claims about the player's karaoke timer (specification SpecTimers) *)

\* C30: at most one karaoke interval is active at any time, and none is
\* active while the player is not playing, that is after pause() or the
\* end of the audio and before the next play().
C30_UmTemporizador ==
    /\ Cardinality(temporizadores.intervalos) <= 1
    /\ ~isPlaying => temporizadores.intervalos = {}


=============================================================================
